---------------------------- MODULE Spec2Model ----------------------------
(***************************************************************************)
(* State-machine model of the shadowAI hub (src/server.js): the pairing    *)
(* store, the device registry, the signaling relay, and the capture /      *)
(* follow-up orchestration with its day-bucketed history.                  *)
(*                                                                         *)
(* Every handler of the single-threaded event loop is one action.  The two *)
(* async handlers (POST /analyze and ask_followup) are split at their      *)
(* single await: the part before the provider call, and the continuation   *)
(* that runs when the call resolves or rejects.                            *)
(***************************************************************************)
EXTENDS Integers, Sequences, FiniteSets, TLC

(***************************************************************************)
(* Program constant and model bounds.                                      *)
(***************************************************************************)
\* The in-memory history holds at most 50 records (server.js 141, 322).
HISTORY_LIMIT == 50

\* Connection ids 1..MaxSockets (socket.id values handed out by the transport).
MaxSockets == 2
\* Length of a calendar day in clock ticks (one tick = one value of Date.now()).
DayLen == 100
\* Clock value at which the process is first started (inside day 0).
StartNow == 60
\* Last calendar day modelled (days are 0..MaxDay).
MaxDay == 1
\* Handler runs (and clock steps) per behaviour of the history model.
MaxHistorySteps == 5
\* Handler runs per behaviour of the pairing model.
MaxHubSteps == 6
\* Handler runs per behaviour of the relay model.
MaxRelaySteps == 5
\* Handler runs per behaviour of the pairing-store model.
MaxPairingSteps == 5
\* Handler runs per behaviour of the model of handlers run during provider calls.
MaxConcurrentSteps == 5
\* Handler runs per behaviour of the startup model.
MaxStartupSteps == 4
\* Handler runs (and clock steps) per behaviour of the thread model.
MaxThreadSteps == 6
\* Requests accepted (and clock steps) per behaviour of the capture model.
MaxCaptureSteps == 4
\* Handler runs per behaviour of the model of all handlers.
MaxFrameSteps == 4
\* Handler runs (and clock steps) per behaviour of the model of captures
\* followed by follow-ups.
MaxSyncSteps == 7

Sockets   == 1..MaxSockets
Days      == 0..MaxDay
\* Pseudo-recipient of io.emit (every connected socket).
Broadcast == 0
\* Pseudo-recipient of the HTTP response of POST /analyze.
HttpClient == -1

DeviceIds == {"AAA1", "BBB2", "CCC3"}
Names     == {"n1"}
\* The names a pair_accepted payload may give for the requester (partnerName).
PairNames == {"n1", "n2"}
Prompts   == {"p1"}
Replies   == {"r1"}
Providers == {"gemini", "ollama"}
\* An id that no record of the model carries (older than every stored one).
UnknownId == StartNow - HISTORY_LIMIT - 2

Day(t) == t \div DayLen

VARIABLES
    connected,          \* live connections (sockets known to the transport)
    connectedDevices,   \* Map socket.id -> device entry
    pairs,              \* pairing map: deviceId -> sequence of {id, name}
    pairsFile,          \* pairs.json on disk
    config,             \* provider configuration
    history,            \* in-memory history, most recent first
    buckets,            \* public/history/<day>/data.jsonl, per day
    images,             \* image files written under public/history/<day>/
    now,                \* the clock (Date.now())
    pendingScans,       \* /analyze requests suspended at the provider call
    pendingFollowups,   \* ask_followup handlers suspended at the provider call
    sent,               \* what the last handler emitted, in order
    lastOp,             \* the handler that ran last, with its inputs
    appendLog,          \* ghost: records in the order they were appended
    socketIds,          \* number of socket ids the transport has handed out
    steps               \* ghost: handler runs so far (bounds the model)

hubVars  == <<connectedDevices, pairs, pairsFile>>
histVars == <<history, buckets, images, pendingScans, pendingFollowups, appendLog>>
vars == <<connected, connectedDevices, pairs, pairsFile, config, history, buckets,
          images, now, pendingScans, pendingFollowups, sent, lastOp, appendLog,
          socketIds, steps>>

(***************************************************************************)
(* Emissions.  A socket is alone in the room named by its own id (the code *)
(* never calls socket.join), so io.to(id) reaches that socket if it is     *)
(* connected and nobody otherwise.                                         *)
(***************************************************************************)
IoEmit(ev, data) ==
    [ev |-> ev, to |-> Broadcast, rcpt |-> connected, data |-> data]

SocketEmit(s, ev, data) ==
    [ev |-> ev, to |-> s, rcpt |-> {s} \cap connected, data |-> data]

\* Mutant of IoTo: the room is ignored and every connection is reached.
IoToEverybody(target, ev, data) ==
    [ev |-> ev, to |-> target, rcpt |-> connected, data |-> data]

IoTo(target, ev, data) ==
    [ev |-> ev, to |-> target, rcpt |-> {target} \cap connected, data |-> data]

HttpSend(status) ==
    [ev |-> "http", to |-> HttpClient, rcpt |-> {}, data |-> status]

(***************************************************************************)
(* Day buckets.  A bucket file is a sequence of lines, each ended by "\n". *)
(* A line is the JSON text of a record, a malformed text, or blank.        *)
(***************************************************************************)
NoFile == [exists |-> FALSE, lines |-> <<>>]
File(ls) == [exists |-> TRUE, lines |-> ls]

JSONStringify(r) == [json |-> TRUE, obj |-> r]
BadLine == [json |-> FALSE, raw |-> "{bad"]
BlankLine == [json |-> FALSE, raw |-> ""]
IsBlank(l) == ~l.json /\ l.raw = ""
\* JSON.parse throws on a malformed line.
Parses(l) == l.json
JSONParse(l) == l.obj

\* content.trim().split('\n') followed by dropping the empty strings.
NonBlankLines(ls) == SelectSeq(ls, LAMBDA l : ~IsBlank(l))

\* newLines.join('\n') + '\n': no line at all still writes one "\n".
JoinLines(ls) == IF ls = <<>> THEN <<BlankLine>> ELSE ls

HasThread(r) == "thread" \in DOMAIN r
ThreadOf(r) == IF HasThread(r) THEN r.thread ELSE <<>>

\* Mutant of PushThread: the entry is put in front of the thread.
UnshiftThread(r, entry) ==
    [f \in (DOMAIN r) \cup {"thread"} |->
        IF f = "thread" THEN <<entry>> \o ThreadOf(r) ELSE r[f]]

\* if (!x.thread) x.thread = []; x.thread.push(entry)
PushThread(r, entry) ==
    [f \in (DOMAIN r) \cup {"thread"} |->
        IF f = "thread" THEN Append(ThreadOf(r), entry) ELSE r[f]]

RECURSIVE UnshiftedUntilBad(_, _)
\* Mutant of Unshifted: the first malformed line aborts the load (the
\* try/catch around JSON.parse is missing).
UnshiftedUntilBad(ls, acc) ==
    IF ls = <<>> THEN acc
    ELSE LET l == Head(ls)
         IN  IF ~IsBlank(l) /\ ~Parses(l) THEN acc
             ELSE UnshiftedUntilBad(Tail(ls),
                                    IF ~IsBlank(l) THEN <<JSONParse(l)>> \o acc ELSE acc)

RECURSIVE Unshifted(_, _)
\* lines.forEach(line => history.unshift(JSON.parse(line))), bad lines skipped
Unshifted(ls, acc) ==
    IF ls = <<>> THEN acc
    ELSE LET l == Head(ls)
         IN  Unshifted(Tail(ls),
                       IF ~IsBlank(l) /\ Parses(l)
                       THEN <<JSONParse(l)>> \o acc ELSE acc)

\* Mutant of Truncate: the surplus is cut from the front, the oldest 50 stay.
TruncateFront(h) ==
    IF Len(h) > HISTORY_LIMIT
    THEN SubSeq(h, Len(h) - HISTORY_LIMIT + 1, Len(h)) ELSE h

Truncate(h) == IF Len(h) > HISTORY_LIMIT THEN SubSeq(h, 1, HISTORY_LIMIT) ELSE h

loadHistory(file) ==
    IF file.exists THEN Truncate(Unshifted(file.lines, <<>>)) ELSE <<>>

\* The records of a bucket's well-formed lines, in file order.
RecordsOf(file) ==
    LET ok == SelectSeq(file.lines, LAMBDA l : ~IsBlank(l) /\ Parses(l))
    IN  [i \in 1..Len(ok) |-> JSONParse(ok[i])]

(***************************************************************************)
(* Initial states: the state right after the module body of server.js has  *)
(* run (loadPairs(), loadHistory()), for the files the process may find.   *)
(***************************************************************************)
\* The record a capture accepted at clock value t has written.  The fields
\* provider, model and timestamp of resultData are written once and never
\* read by the hub; they are left out.
ScanRecord(t, answer) ==
    [id |-> t, image |-> [dir |-> Day(t), file |-> t], answer |-> answer,
     rawDate |-> t]

\* A bucket written earlier on day 0 by k captures, one per clock tick.
PastLines(k) ==
    [i \in 1..k |-> JSONStringify(ScanRecord(StartNow - k + i - 1, "r1"))]

InsertAfter(ls, i, l) == SubSeq(ls, 1, i) \o <<l>> \o SubSeq(ls, i + 1, Len(ls))

\* The buckets the process may find at start: none, one just below the limit
\* with a malformed line in it, and one above the limit.
InitFiles ==
    { NoFile,
      File(InsertAfter(PastLines(HISTORY_LIMIT - 1), 1, BadLine)),
      File(PastLines(HISTORY_LIMIT + 1)) }

\* Lines 18-22: no GEMINI_API_KEY in the environment, no config.json.
DefaultConfig == [GEMINI_API_KEY |-> FALSE, DEFAULT_PROVIDER |-> "ollama"]

EmptyMap == [k \in {} |-> <<>>]
\* pairs.json: missing, unparsable text, or the JSON text of a pairing map.
NoPairsFile == [kind |-> "missing", content |-> EmptyMap]
CorruptPairsFile == [kind |-> "corrupt", content |-> EmptyMap]
\* A pairs.json holding the JSON text null: it parses, but not to a map.
NullPairsFile == [kind |-> "null", content |-> EmptyMap]
\* The value of the variable pairs after JSON.parse returned null.
NullPairs == [null |-> TRUE]
PairsFileOf(map) == [kind |-> "map", content |-> map]

Strip(r) == [f \in (DOMAIN r) \ {"thread"} |-> r[f]]
StripAll(h) == [i \in 1..Len(h) |-> Strip(h[i])]

InitCommon ==
    /\ connected = {}
    /\ connectedDevices = EmptyMap
    /\ now = StartNow
    /\ images = {}
    /\ pendingScans = <<>>
    /\ pendingFollowups = <<>>
    /\ sent = <<>>
    /\ lastOp = [kind |-> "start"]
    /\ socketIds = 0
    /\ steps = 0

InitHistory ==
    /\ InitCommon
    /\ pairsFile = NoPairsFile
    /\ pairs = EmptyMap
    /\ config = DefaultConfig
    /\ \E f \in InitFiles :
          /\ buckets = [d \in Days |-> IF d = 0 THEN f ELSE NoFile]
          /\ history = loadHistory(f)
          /\ appendLog = StripAll(RecordsOf(f))

(***************************************************************************)
(* The clock.                                                              *)
(***************************************************************************)
Tick ==
    /\ Day(now + 1) = Day(now)
    /\ now' = now + 1
    /\ sent' = <<>>
    /\ lastOp' = [kind |-> "tick"]
    /\ UNCHANGED <<connected, hubVars, config, histVars, socketIds>>

Midnight ==
    /\ Day(now) < MaxDay
    /\ now' = (Day(now) + 1) * DayLen
    /\ sent' = <<>>
    /\ lastOp' = [kind |-> "tick"]
    /\ UNCHANGED <<connected, hubVars, config, histVars, socketIds>>

\* getDailyPath(): the bucket directory of the calendar day of "now".
getDailyPath == Day(now)

(***************************************************************************)
(* Provider gateway (askGemini / askOllama): the call fails at once when   *)
(* the Gemini key is missing, otherwise the backend decides.               *)
(***************************************************************************)
CanSucceed(provider) == provider = "gemini" => config.GEMINI_API_KEY

FailureCause(provider) ==
    IF provider = "gemini" /\ ~config.GEMINI_API_KEY THEN "config" ELSE "upstream"

RemoveAt(q, i) == SubSeq(q, 1, i - 1) \o SubSeq(q, i + 1, Len(q))

(***************************************************************************)
(* POST /analyze                                                           *)
(***************************************************************************)
\* Mutant of AnalyzeStart: the image is stored and the provider is called,
\* but new_scan is not broadcast before the call.
AnalyzeStartSilent(hasFile, provider) ==
    /\ IF ~hasFile
       THEN /\ provider = "ollama"
            /\ sent' = <<HttpSend(400)>>
            /\ lastOp' = [kind |-> "analyze_nofile"]
            /\ UNCHANGED <<histVars, socketIds>>
       ELSE LET scanId == now
                image  == [dir |-> getDailyPath, file |-> now]
                req    == [scanId |-> scanId, image |-> image, day |-> getDailyPath,
                           time |-> now, provider |-> provider]
            IN  /\ images' = images \cup {image}
                /\ pendingScans' = Append(pendingScans, req)
                /\ sent' = <<>>
                /\ lastOp' = [kind |-> "analyze_start", scanId |-> scanId]
                /\ UNCHANGED socketIds
                /\ UNCHANGED <<history, buckets, pendingFollowups, appendLog>>
    /\ UNCHANGED <<connected, hubVars, config, now>>

\* Lines 276-303: up to the await of the provider call.
AnalyzeStart(hasFile, provider) ==
    /\ IF ~hasFile
       THEN /\ provider = "ollama"          \* req.body is not read on this path
            /\ sent' = <<HttpSend(400)>>
            /\ lastOp' = [kind |-> "analyze_nofile"]
            /\ UNCHANGED <<histVars, socketIds>>
       ELSE LET scanId == now
                image  == [dir |-> getDailyPath, file |-> now]
                req    == [scanId |-> scanId, image |-> image, day |-> getDailyPath,
                           time |-> now, provider |-> provider]
            IN  /\ images' = images \cup {image}
                /\ pendingScans' = Append(pendingScans, req)
                /\ sent' = <<IoEmit("new_scan", [id |-> scanId, image |-> image])>>
                /\ lastOp' = [kind |-> "analyze_start", scanId |-> scanId]
                /\ UNCHANGED socketIds
                /\ UNCHANGED <<history, buckets, pendingFollowups, appendLog>>
    /\ UNCHANGED <<connected, hubVars, config, now>>

\* history.unshift(resultData)
Unshift(h, r) == <<r>> \o h

\* Mutant of PopIfOver: shift() instead of pop(), the newest record is evicted.
ShiftIfOver(h) == IF Len(h) > HISTORY_LIMIT THEN Tail(h) ELSE h

\* if (history.length > 50) history.pop()
PopIfOver(h) == IF Len(h) > HISTORY_LIMIT THEN SubSeq(h, 1, Len(h) - 1) ELSE h

\* Mutant of AppendLine: writeFileSync instead of appendFileSync, the bucket
\* is replaced by the new line.
OverwriteWithLine(file, r) == File(<<JSONStringify(r)>>)

\* fs.appendFileSync(jsonlPath, JSON.stringify(resultData) + '\n')
AppendLine(file, r) == File(file.lines \o <<JSONStringify(r)>>)

\* Lines 305-328: the provider call resolved.
AnalyzeSucceed(i, answer) ==
    /\ i \in 1..Len(pendingScans)
    /\ CanSucceed(pendingScans[i].provider)
    /\ LET req == pendingScans[i]
           resultData == [id |-> req.scanId, image |-> req.image,
                          answer |-> answer, rawDate |-> req.time]
       IN  /\ buckets' = [buckets EXCEPT ![req.day] = AppendLine(@, resultData)]
           /\ history' = PopIfOver(Unshift(history, resultData))
           /\ sent' = << IoEmit("new_answer", resultData),
                         IoEmit("history_update", history'),
                         HttpSend(200) >>
           /\ appendLog' = Append(appendLog, resultData)
           /\ lastOp' = [kind |-> "analyze_ok", scanId |-> req.scanId,
                         day |-> req.day, record |-> resultData]
    /\ pendingScans' = RemoveAt(pendingScans, i)
    /\ UNCHANGED <<connected, hubVars, config, images, now, pendingFollowups, socketIds>>

\* Mutant of AnalyzeFail: the error text is stored as if it were an answer
\* (the provider helpers returning the message instead of throwing).
AnalyzeFailStored(i) ==
    /\ i \in 1..Len(pendingScans)
    /\ LET req == pendingScans[i]
           resultData == [id |-> req.scanId, image |-> req.image,
                          answer |-> "error", rawDate |-> req.time]
       IN  /\ buckets' = [buckets EXCEPT ![req.day] = AppendLine(@, resultData)]
           /\ history' = PopIfOver(Unshift(history, resultData))
           /\ sent' = << IoEmit("scan_failed", <<>>),
                         IoEmit("error", [provider |-> req.provider,
                                          cause |-> FailureCause(req.provider)]),
                         HttpSend(500) >>
           /\ appendLog' = Append(appendLog, resultData)
           /\ lastOp' = [kind |-> "analyze_failed", scanId |-> req.scanId,
                         day |-> req.day]
    /\ pendingScans' = RemoveAt(pendingScans, i)
    /\ UNCHANGED <<connected, hubVars, config, images, now, pendingFollowups, socketIds>>

\* Mutant of AnalyzeFail: the failed provider call is issued again.
AnalyzeFailRetry(i) ==
    /\ i \in 1..Len(pendingScans)
    /\ LET req == pendingScans[i]
           message == [provider |-> req.provider, cause |-> FailureCause(req.provider)]
       IN  /\ sent' = << IoEmit("scan_failed", <<>>),
                         IoEmit("error", message),
                         HttpSend(500) >>
           /\ lastOp' = [kind |-> "analyze_failed", scanId |-> req.scanId,
                         day |-> req.day]
           /\ pendingScans' = Append(RemoveAt(pendingScans, i), req)
    /\ UNCHANGED <<connected, hubVars, config, history, buckets, images, now,
                   pendingFollowups, appendLog, socketIds>>

\* Mutant of AnalyzeFail: the failure is broadcast but the HTTP request is
\* never answered.
AnalyzeFailNoResponse(i) ==
    /\ i \in 1..Len(pendingScans)
    /\ LET req == pendingScans[i]
           message == [provider |-> req.provider, cause |-> FailureCause(req.provider)]
       IN  /\ sent' = << IoEmit("scan_failed", <<>>),
                         IoEmit("error", message) >>
           /\ lastOp' = [kind |-> "analyze_failed", scanId |-> req.scanId,
                         day |-> req.day]
    /\ pendingScans' = RemoveAt(pendingScans, i)
    /\ UNCHANGED <<connected, hubVars, config, history, buckets, images, now,
                   pendingFollowups, appendLog, socketIds>>

\* Lines 330-335: the provider call rejected.
AnalyzeFail(i) ==
    /\ i \in 1..Len(pendingScans)
    /\ LET req == pendingScans[i]
           message == [provider |-> req.provider, cause |-> FailureCause(req.provider)]
       IN  /\ sent' = << IoEmit("scan_failed", <<>>),
                         IoEmit("error", message),
                         HttpSend(500) >>
           /\ lastOp' = [kind |-> "analyze_failed", scanId |-> req.scanId,
                         day |-> req.day]
    /\ pendingScans' = RemoveAt(pendingScans, i)
    /\ UNCHANGED <<connected, hubVars, config, history, buckets, images, now,
                   pendingFollowups, appendLog, socketIds>>

(***************************************************************************)
(* ask_followup                                                            *)
(***************************************************************************)
\* The ids a client may name as parentId: the oldest line of a full bucket
\* (evicted from memory at load), the newest stored record, the first capture
\* of this run, and an id that no record carries.
ParentIds == {StartNow - HISTORY_LIMIT - 1, StartNow - 1, StartNow, UnknownId}

\* Lines 428-452: up to the await of the provider call.
FollowupStart(s, parentId, prompt) ==
    /\ s \in connected
    /\ pendingFollowups' = Append(pendingFollowups,
           [socket |-> s, parentId |-> parentId, prompt |-> prompt,
            provider |-> config.DEFAULT_PROVIDER])
    /\ sent' = <<>>
    /\ lastOp' = [kind |-> "followup_start", socket |-> s, parentId |-> parentId]
    /\ UNCHANGED socketIds
    /\ UNCHANGED <<connected, hubVars, config, history, buckets, images, now,
                   pendingScans, appendLog>>

\* history.find(h => h.id === parentId): the index of the first match, or 0.
FindIndex(h, id) ==
    IF \E i \in 1..Len(h) : h[i].id = id
    THEN CHOOSE i \in 1..Len(h) :
            /\ h[i].id = id
            /\ \A k \in 1..(i - 1) : h[k].id # id
    ELSE 0

\* Mutant of ThreadInMemory: the thread is replaced by the new entry, as a
\* write of a copy taken before the provider call would do.
ThreadInMemoryLastWins(h, id, entry) ==
    LET i == FindIndex(h, id)
    IN  IF i = 0 THEN h
        ELSE [h EXCEPT ![i] = [f \in (DOMAIN @) \cup {"thread"} |->
                                  IF f = "thread" THEN <<entry>> ELSE @[f]]]

\* Lines 469-473: the thread of the item found in memory grows by the entry.
ThreadInMemory(h, id, entry) ==
    LET i == FindIndex(h, id)
    IN  IF i = 0 THEN h ELSE [h EXCEPT ![i] = PushThread(@, entry)]

\* Mutant of MapLine: the id of the line is not compared with parentId.
MapLineAnyId(l, id, entry) ==
    IF Parses(l) THEN JSONStringify(PushThread(JSONParse(l), entry)) ELSE l

\* Lines 481-491: one line of the bucket, rewritten or kept as it is.
MapLine(l, id, entry) ==
    IF Parses(l) /\ JSONParse(l).id = id
    THEN JSONStringify(PushThread(JSONParse(l), entry))
    ELSE l

\* Lines 476-494: read the bucket, update the target's lines, write it back.
RewriteBucket(file, id, entry) ==
    IF file.exists
    THEN LET lines == NonBlankLines(file.lines)
             newLines == [k \in 1..Len(lines) |-> MapLine(lines[k], id, entry)]
         IN  File(JoinLines(newLines))
    ELSE file

\* The bucket the follow-up's persistence reads and rewrites (line 465).
FollowupBucket(f) == getDailyPath

\* Lines 454-494: the provider call resolved.
FollowupSucceed(j, reply) ==
    /\ j \in 1..Len(pendingFollowups)
    /\ CanSucceed(pendingFollowups[j].provider)
    /\ LET f == pendingFollowups[j]
           timestamp == now
           entry == [prompt |-> f.prompt, answer |-> reply, timestamp |-> timestamp]
           day == FollowupBucket(f)
       IN  /\ sent' = << IoEmit("followup_result",
                            [parentId |-> f.parentId, prompt |-> f.prompt,
                             answer |-> reply, timestamp |-> timestamp]) >>
           /\ history' = ThreadInMemory(history, f.parentId, entry)
           /\ buckets' = [buckets EXCEPT ![day] = RewriteBucket(@, f.parentId, entry)]
           /\ lastOp' = [kind |-> "followup_ok", socket |-> f.socket,
                         parentId |-> f.parentId, entry |-> entry, day |-> day]
    /\ pendingFollowups' = RemoveAt(pendingFollowups, j)
    /\ UNCHANGED <<connected, hubVars, config, images, now, pendingScans,
                   appendLog, socketIds>>

\* Mutant of FollowupFail: the failure is reported the way POST /analyze
\* reports one, with io.emit instead of socket.emit.
FollowupFailBroadcast(j) ==
    /\ j \in 1..Len(pendingFollowups)
    /\ LET f == pendingFollowups[j]
           message == [provider |-> f.provider, cause |-> FailureCause(f.provider)]
       IN  /\ sent' = <<IoEmit("error", message)>>
           /\ lastOp' = [kind |-> "followup_failed", socket |-> f.socket,
                         parentId |-> f.parentId]
    /\ pendingFollowups' = RemoveAt(pendingFollowups, j)
    /\ UNCHANGED <<connected, hubVars, config, history, buckets, images, now,
                   pendingScans, appendLog, socketIds>>

\* Lines 496-498: the provider call rejected.
FollowupFail(j) ==
    /\ j \in 1..Len(pendingFollowups)
    /\ LET f == pendingFollowups[j]
           message == [provider |-> f.provider, cause |-> FailureCause(f.provider)]
       IN  /\ sent' = <<SocketEmit(f.socket, "error", message)>>
           /\ lastOp' = [kind |-> "followup_failed", socket |-> f.socket,
                         parentId |-> f.parentId]
    /\ pendingFollowups' = RemoveAt(pendingFollowups, j)
    /\ UNCHANGED <<connected, hubVars, config, history, buckets, images, now,
                   pendingScans, appendLog, socketIds>>

(***************************************************************************)
(* Helpers for Map iteration                                               *)
(***************************************************************************)
\* Array.from(connectedDevices.values()) / .entries(): the entries, listed by
\* socket id (clients re-sort the list; no handler depends on its order).
RECURSIVE SeqOfSet(_)
SeqOfSet(S) ==
    IF S = {} THEN <<>>
    ELSE LET m == CHOOSE x \in S : \A y \in S : x <= y
         IN  <<m>> \o SeqOfSet(S \ {m})

(***************************************************************************)
(* Pairing store                                                           *)
(***************************************************************************)
\* Lines 66-75: a missing file leaves {}, an unparsable one sets {}; whatever
\* JSON.parse returns is assigned unchecked.
loadPairs(file) ==
    CASE file.kind = "map"  -> file.content
      [] file.kind = "null" -> NullPairs
      [] OTHER              -> EmptyMap

\* The process is up: no handler has thrown since the last start.
Alive == lastOp.kind # "crash"

\* A socket handler throws (pairs[...] on null is a TypeError); nothing
\* catches it and there is no uncaughtException listener, so the process
\* exits: connections and memory are gone, the files stay.
Crash(handler, s) ==
    /\ connected' = {}
    /\ connectedDevices' = EmptyMap
    /\ pendingScans' = <<>>
    /\ pendingFollowups' = <<>>
    /\ sent' = <<>>
    /\ lastOp' = [kind |-> "crash", handler |-> handler, socket |-> s]
    /\ UNCHANGED <<pairs, pairsFile, config, history, buckets, images, now,
                   appendLog, socketIds>>

\* Mutant of savePairs: the map is never written.
savePairsSkipped(map, writeOk) == pairsFile

\* Lines 78-84: writeFileSync may throw; the error is logged and swallowed.
savePairs(map, writeOk) == IF writeOk THEN PairsFileOf(map) ELSE pairsFile

\* if (!pairs[id]) pairs[id] = []
EnsureKey(map, id) ==
    IF id \in DOMAIN map THEN map
    ELSE [k \in (DOMAIN map) \cup {id} |-> IF k = id THEN <<>> ELSE map[k]]

HasPeer(list, id) == \E i \in 1..Len(list) : list[i].id = id

\* Mutant of PushPeer: the entry is pushed without looking for an existing one.
PushPeerAlways(map, a, b, name) ==
    [map EXCEPT ![a] = Append(@, [id |-> b, name |-> name])]

\* if (!pairs[a].find(p => p.id === b)) pairs[a].push({ id: b, name })
PushPeer(map, a, b, name) ==
    IF HasPeer(map[a], b) THEN map
    ELSE [map EXCEPT ![a] = Append(@, [id |-> b, name |-> name])]

\* Mutant of addPair: only the first direction of the edge is stored.
addPairOneWay(map, idA, nameA, idB, nameB) ==
    PushPeer(EnsureKey(EnsureKey(map, idA), idB), idA, idB, nameB)

\* Lines 86-93: the map after addPair, before it is saved.
addPair(map, idA, nameA, idB, nameB) ==
    LET m1 == EnsureKey(EnsureKey(map, idA), idB)
        m2 == PushPeer(m1, idA, idB, nameB)
    IN  PushPeer(m2, idB, idA, nameA)

\* Mutant of FilterPeer: the whole list of a is dropped.
FilterPeerClear(map, a, b) ==
    IF a \in DOMAIN map THEN [map EXCEPT ![a] = <<>>] ELSE map

\* if (pairs[a]) pairs[a] = pairs[a].filter(p => p.id !== b)
FilterPeer(map, a, b) ==
    IF a \in DOMAIN map
    THEN [map EXCEPT ![a] = SelectSeq(@, LAMBDA p : p.id # b)]
    ELSE map

\* Lines 97-99: the map after removePair, before it is saved.
removePair(map, idA, idB) == FilterPeer(FilterPeer(map, idA, idB), idB, idA)

\* pairs[id] || []
EdgesOrEmpty(map, id) == IF id \in DOMAIN map THEN map[id] ELSE <<>>

(***************************************************************************)
(* Device registry                                                         *)
(***************************************************************************)
\* Mutant of SetDevice: the registry is keyed by the stable id, an entry of
\* another socket with the same deviceId is replaced.
SetDeviceByStableId(map, s, entry) ==
    LET keep == {k \in DOMAIN map : map[k].deviceId # entry.deviceId}
    IN  [k \in keep \cup {s} |-> IF k = s THEN entry ELSE map[k]]

SetDevice(map, s, entry) ==
    [k \in (DOMAIN map) \cup {s} |-> IF k = s THEN entry ELSE map[k]]

DeviceValuesOf(map) ==
    LET ids == SeqOfSet(DOMAIN map)
    IN  [i \in 1..Len(ids) |-> map[ids[i]]]

\* Lines 209-218: the device list sent to everybody.
broadcastDevices(map) == IoEmit("device_list", DeviceValuesOf(map))

\* Mutant of Register: the handler runs only when no provider call is pending
\* (as it would if the provider were called synchronously).
RegisterWhenIdle(s, name, isMobile, deviceId) ==
    /\ pendingScans = <<>>
    /\ pendingFollowups = <<>>
    /\ s \in connected
    /\ connectedDevices' = SetDevice(connectedDevices, s,
           [id |-> s, name |-> name, isMobile |-> isMobile, hasCamera |-> FALSE,
            deviceId |-> deviceId])
    /\ sent' = (IF deviceId \in DOMAIN pairs
                THEN <<SocketEmit(s, "paired_devices_sync", pairs[deviceId])>>
                ELSE <<>>)
               \o <<broadcastDevices(connectedDevices')>>
    /\ lastOp' = [kind |-> "register", socket |-> s, deviceId |-> deviceId]
    /\ UNCHANGED socketIds
    /\ UNCHANGED <<connected, pairs, pairsFile, config, histVars, now>>

\* Mutant of Register: a connection that registers again keeps the camera
\* state of its entry.
RegisterKeepsCamera(s, name, isMobile, deviceId) ==
    /\ s \in connected
    /\ connectedDevices' = SetDevice(connectedDevices, s,
           [id |-> s, name |-> name, isMobile |-> isMobile,
            hasCamera |-> (s \in DOMAIN connectedDevices /\ connectedDevices[s].hasCamera),
            deviceId |-> deviceId])
    /\ sent' = (IF deviceId \in DOMAIN pairs
                THEN <<SocketEmit(s, "paired_devices_sync", pairs[deviceId])>>
                ELSE <<>>)
               \o <<broadcastDevices(connectedDevices')>>
    /\ lastOp' = [kind |-> "register", socket |-> s, deviceId |-> deviceId]
    /\ UNCHANGED socketIds
    /\ UNCHANGED <<connected, pairs, pairsFile, config, histVars, now>>

\* Lines 347-362; pairs[data.deviceId] at line 357 throws when pairs is null.
Register(s, name, isMobile, deviceId) ==
    /\ s \in connected
    /\ IF pairs = NullPairs
       THEN Crash("register", s)
       ELSE /\ connectedDevices' = SetDevice(connectedDevices, s,
                   [id |-> s, name |-> name, isMobile |-> isMobile,
                    hasCamera |-> FALSE, deviceId |-> deviceId])
            /\ sent' = (IF deviceId \in DOMAIN pairs
                        THEN <<SocketEmit(s, "paired_devices_sync", pairs[deviceId])>>
                        ELSE <<>>)
                       \o <<broadcastDevices(connectedDevices')>>
            /\ lastOp' = [kind |-> "register", socket |-> s, deviceId |-> deviceId]
            /\ UNCHANGED socketIds
            /\ UNCHANGED <<connected, pairs, pairsFile, config, histVars, now>>

\* Lines 365-367
RequestHistory(s) ==
    /\ s \in connected
    /\ sent' = <<SocketEmit(s, "history_update", history)>>
    /\ lastOp' = [kind |-> "request_history", socket |-> s]
    /\ UNCHANGED <<connected, hubVars, config, histVars, now, socketIds>>

\* Mutant of ToggleDeviceType: the entry is updated without the broadcast.
ToggleDeviceTypeQuiet(s) ==
    /\ s \in connected
    /\ IF s \in DOMAIN connectedDevices
       THEN connectedDevices' = [connectedDevices EXCEPT ![s].isMobile = ~@]
       ELSE UNCHANGED connectedDevices
    /\ sent' = <<>>
    /\ lastOp' = [kind |-> "toggle_device_type", socket |-> s]
    /\ UNCHANGED socketIds
    /\ UNCHANGED <<connected, pairs, pairsFile, config, histVars, now>>

\* Lines 370-377
ToggleDeviceType(s) ==
    /\ s \in connected
    /\ IF s \in DOMAIN connectedDevices
       THEN /\ connectedDevices' =
                   [connectedDevices EXCEPT ![s].isMobile = ~@]
            /\ sent' = <<IoEmit("device_list", DeviceValuesOf(connectedDevices'))>>
       ELSE /\ sent' = <<>>
            /\ UNCHANGED connectedDevices
    /\ lastOp' = [kind |-> "toggle_device_type", socket |-> s]
    /\ UNCHANGED socketIds
    /\ UNCHANGED <<connected, pairs, pairsFile, config, histVars, now>>

\* Mutant of CameraStatus: an unknown connection gets an entry made for it.
CameraStatusUpsert(s, active) ==
    /\ s \in connected
    /\ connectedDevices' =
          IF s \in DOMAIN connectedDevices
          THEN [connectedDevices EXCEPT ![s].hasCamera = active]
          ELSE SetDevice(connectedDevices, s,
                   [id |-> s, name |-> "n1", isMobile |-> FALSE, hasCamera |-> active,
                    deviceId |-> "AAA1"])
    /\ sent' = <<IoEmit("device_list", DeviceValuesOf(connectedDevices'))>>
    /\ lastOp' = [kind |-> "camera_status", socket |-> s, active |-> active]
    /\ UNCHANGED socketIds
    /\ UNCHANGED <<connected, pairs, pairsFile, config, histVars, now>>

\* Lines 380-387
CameraStatus(s, active) ==
    /\ s \in connected
    /\ IF s \in DOMAIN connectedDevices
       THEN /\ connectedDevices' =
                   [connectedDevices EXCEPT ![s].hasCamera = active]
            /\ sent' = <<IoEmit("device_list", DeviceValuesOf(connectedDevices'))>>
       ELSE /\ sent' = <<>>
            /\ UNCHANGED connectedDevices
    /\ lastOp' = [kind |-> "camera_status", socket |-> s, active |-> active]
    /\ UNCHANGED socketIds
    /\ UNCHANGED <<connected, pairs, pairsFile, config, histVars, now>>

(***************************************************************************)
(* Connections                                                             *)
(***************************************************************************)
\* Lines 339-344: a client connects; the transport hands out a fresh socket.id.
Connect(s) ==
    /\ Alive
    /\ s = socketIds + 1
    /\ connected' = connected \cup {s}
    /\ socketIds' = s
    /\ sent' = << [ev |-> "history_update", to |-> s, rcpt |-> {s}, data |-> history],
                  [ev |-> "device_list", to |-> s, rcpt |-> {s},
                   data |-> DeviceValuesOf(connectedDevices)] >>
    /\ lastOp' = [kind |-> "connect", socket |-> s]
    /\ UNCHANGED <<hubVars, config, histVars, now>>

\* Mutant of Disconnect: the connection goes, its registry entry stays.
DisconnectKeepsEntry(s) ==
    /\ s \in connected
    /\ connected' = connected \ {s}
    /\ sent' = << [ev |-> "device_list", to |-> Broadcast, rcpt |-> connected',
                   data |-> DeviceValuesOf(connectedDevices)] >>
    /\ lastOp' = [kind |-> "disconnect", socket |-> s]
    /\ UNCHANGED <<connectedDevices, pairs, pairsFile, config, histVars, now, socketIds>>

\* Lines 501-504: a client disconnects.
Disconnect(s) ==
    /\ s \in connected
    /\ connected' = connected \ {s}
    /\ connectedDevices' = [k \in (DOMAIN connectedDevices) \ {s} |-> connectedDevices[k]]
    /\ sent' = << [ev |-> "device_list", to |-> Broadcast, rcpt |-> connected',
                   data |-> DeviceValuesOf(connectedDevices')] >>
    /\ lastOp' = [kind |-> "disconnect", socket |-> s]
    /\ UNCHANGED <<pairs, pairsFile, config, histVars, now, socketIds>>

(***************************************************************************)
(* Signaling relay                                                         *)
(***************************************************************************)
RelayKinds == {"request_remote_capture", "signal_offer", "signal_answer",
               "signal_ice", "request_stream", "stop_stream", "request_pair"}

\* The events a relay handler emits, by the event it handles.
RelayedEvent(kind) ==
    CASE kind = "request_remote_capture" -> "trigger_check"
      [] kind = "request_pair"           -> "pair_request_received"
      [] OTHER                           -> kind

\* The payload each relay handler builds (s is socket.id of the sender, data
\* what the client sent besides the target).
RelayedPayload(kind, s, data) ==
    CASE kind = "request_remote_capture" -> [none |-> TRUE]
      [] kind \in {"signal_offer", "signal_answer"} -> [originId |-> s, sdp |-> data.body]
      [] kind = "signal_ice" -> [originId |-> s, candidate |-> data.body]
      [] kind \in {"request_stream", "stop_stream"} -> [requesterId |-> s]
      [] kind = "request_pair" ->
            [originId |-> data.originId, originName |-> data.originName,
             originSocketId |-> s]

\* What clients put into a relayed message besides the target.
RelayData ==
    [body : {"x"}, originId : {"AAA1"}, originName : {"n1"}]

\* Mutant of Relay: a message for a connection that does not exist is
\* answered with an error to the sender.
RelayOrReport(kind, s, target, data) ==
    /\ s \in connected
    /\ sent' = IF target \in connected
               THEN <<IoTo(target, RelayedEvent(kind), RelayedPayload(kind, s, data))>>
               ELSE <<SocketEmit(s, "error", [target |-> target])>>
    /\ lastOp' = [kind |-> "relay", event |-> kind, socket |-> s, target |-> target]
    /\ UNCHANGED <<connected, hubVars, config, histVars, now, socketIds>>

\* Mutant of Relay: the hub notes in the registry that the target was asked
\* (its camera is taken to be in use).
RelayTracksTarget(kind, s, target, data) ==
    /\ s \in connected
    /\ sent' = <<IoTo(target, RelayedEvent(kind), RelayedPayload(kind, s, data))>>
    /\ connectedDevices' =
          IF target \in DOMAIN connectedDevices
          THEN [connectedDevices EXCEPT ![target].hasCamera = TRUE]
          ELSE connectedDevices
    /\ lastOp' = [kind |-> "relay", event |-> kind, socket |-> s, target |-> target]
    /\ UNCHANGED <<connected, pairs, pairsFile, config, histVars, now, socketIds>>

\* Lines 390-425 and 508-515: io.to(target).emit(event, payload)
Relay(kind, s, target, data) ==
    /\ s \in connected
    /\ sent' = <<IoTo(target, RelayedEvent(kind), RelayedPayload(kind, s, data))>>
    /\ lastOp' = [kind |-> "relay", event |-> kind, socket |-> s, target |-> target]
    /\ UNCHANGED <<connected, hubVars, config, histVars, now, socketIds>>

(***************************************************************************)
(* Pairing handshake                                                       *)
(***************************************************************************)
\* Mutant of PairAccepted: only the requester is synced, the acceptor's own
\* list is not sent back.
PairAcceptedPartnerOnly(s, partnerId, partnerName, targetId, targetName, writeOk) ==
    /\ s \in connected
    /\ IF partnerId \in DOMAIN connectedDevices
       THEN LET partnerDeviceId == connectedDevices[partnerId].deviceId
            IN  /\ pairs' = addPair(pairs, targetId, targetName,
                                    partnerDeviceId, partnerName)
                /\ pairsFile' = savePairs(pairs', writeOk)
                /\ sent' = << IoTo(partnerId, "pairing_success",
                                   [id |-> targetId, name |-> targetName]),
                              IoTo(partnerId, "paired_devices_sync",
                                   pairs'[partnerDeviceId]) >>
       ELSE /\ writeOk
            /\ sent' = <<>>
            /\ UNCHANGED <<pairs, pairsFile>>
    /\ lastOp' = [kind |-> "pair_accepted", socket |-> s, partnerId |-> partnerId,
                  partnerName |-> partnerName, targetId |-> targetId,
                  targetName |-> targetName,
                  added |-> partnerId \in DOMAIN connectedDevices,
                  saved |-> (partnerId \in DOMAIN connectedDevices) /\ writeOk]
    /\ UNCHANGED socketIds
    /\ UNCHANGED <<connected, connectedDevices, config, histVars, now>>

\* Mutant of PairAccepted: the edge is stored without looking the partner up
\* in the registry (an unknown partner is stored under a fixed id).
PairAcceptedUnchecked(s, partnerId, partnerName, targetId, targetName, writeOk) ==
    /\ s \in connected
    /\ LET partnerDeviceId == IF partnerId \in DOMAIN connectedDevices
                              THEN connectedDevices[partnerId].deviceId
                              ELSE "CCC3"
       IN  /\ pairs' = addPair(pairs, targetId, targetName, partnerDeviceId, partnerName)
           /\ pairsFile' = savePairs(pairs', writeOk)
           /\ sent' = << IoTo(partnerId, "pairing_success",
                              [id |-> targetId, name |-> targetName]),
                         IoTo(partnerId, "paired_devices_sync", pairs'[partnerDeviceId]),
                         SocketEmit(s, "paired_devices_sync", pairs'[targetId]) >>
    /\ lastOp' = [kind |-> "pair_accepted", socket |-> s, partnerId |-> partnerId,
                  partnerName |-> partnerName, targetId |-> targetId,
                  targetName |-> targetName,
                  added |-> partnerId \in DOMAIN connectedDevices,
                  saved |-> (partnerId \in DOMAIN connectedDevices) /\ writeOk]
    /\ UNCHANGED socketIds
    /\ UNCHANGED <<connected, connectedDevices, config, histVars, now>>

\* Lines 518-542; addPair reads pairs[idA] first and throws when pairs is
\* null.
PairAccepted(s, partnerId, partnerName, targetId, targetName, writeOk) ==
    /\ s \in connected
    /\ IF pairs = NullPairs /\ partnerId \in DOMAIN connectedDevices
       THEN Crash("pair_accepted", s)
       ELSE /\ IF partnerId \in DOMAIN connectedDevices
               THEN LET partnerDeviceId == connectedDevices[partnerId].deviceId
                    IN  /\ pairs' = addPair(pairs, targetId, targetName,
                                            partnerDeviceId, partnerName)
                        /\ pairsFile' = savePairs(pairs', writeOk)
                        /\ sent' = << IoTo(partnerId, "pairing_success",
                                           [id |-> targetId, name |-> targetName]),
                                      IoTo(partnerId, "paired_devices_sync",
                                           pairs'[partnerDeviceId]),
                                      SocketEmit(s, "paired_devices_sync",
                                                 pairs'[targetId]) >>
               ELSE /\ writeOk
                    /\ sent' = <<>>
                    /\ UNCHANGED <<pairs, pairsFile>>
            /\ lastOp' = [kind |-> "pair_accepted", socket |-> s,
                          partnerId |-> partnerId, partnerName |-> partnerName,
                          targetId |-> targetId, targetName |-> targetName,
                          added |-> partnerId \in DOMAIN connectedDevices,
                          saved |-> (partnerId \in DOMAIN connectedDevices) /\ writeOk]
            /\ UNCHANGED socketIds
            /\ UNCHANGED <<connected, connectedDevices, config, histVars, now>>

\* The sockets registered under a device id, in the order of the registry.
SocketsOf(deviceId) ==
    SelectSeq(SeqOfSet(DOMAIN connectedDevices),
              LAMBDA k : connectedDevices[k].deviceId = deviceId)

\* Lines 545-565; removePair reads pairs[idA] first and throws when pairs is
\* null.
RequestUnpair(s, originId, targetId, writeOk) ==
    /\ s \in connected
    /\ IF pairs = NullPairs
       THEN Crash("request_unpair", s)
       ELSE /\ pairs' = removePair(pairs, originId, targetId)
            /\ pairsFile' = savePairs(pairs', writeOk)
            /\ LET targets == SocketsOf(targetId)
                   notify(k) ==
                       << IoTo(k, "unpair_request_received", [originId |-> originId]),
                          IoTo(k, "paired_devices_sync",
                               EdgesOrEmpty(pairs', targetId)) >>
                   NotifyAll[i \in 0..Len(targets)] ==
                       IF i = 0 THEN <<>> ELSE NotifyAll[i - 1] \o notify(targets[i])
               IN  sent' = <<SocketEmit(s, "paired_devices_sync",
                                        EdgesOrEmpty(pairs', originId))>>
                           \o NotifyAll[Len(targets)]
            /\ lastOp' = [kind |-> "request_unpair", socket |-> s,
                          originId |-> originId, targetId |-> targetId,
                          saved |-> writeOk]
            /\ UNCHANGED socketIds
            /\ UNCHANGED <<connected, connectedDevices, config, histVars, now>>

(***************************************************************************)
(* Process restart: every in-memory structure is rebuilt by the module     *)
(* body; the files stay.                                                   *)
(***************************************************************************)
Restart ==
    /\ connected' = {}
    /\ connectedDevices' = EmptyMap
    /\ pairs' = loadPairs(pairsFile)
    /\ history' = loadHistory(buckets[getDailyPath])
    /\ appendLog' = StripAll(RecordsOf(buckets[getDailyPath]))
    /\ pendingScans' = <<>>
    /\ pendingFollowups' = <<>>
    /\ sent' = <<>>
    /\ lastOp' = [kind |-> "restart"]
    /\ UNCHANGED socketIds
    /\ UNCHANGED <<pairsFile, config, buckets, images, now>>

(***************************************************************************)
(* A behaviour of a model runs at most n handlers (or clock steps).         *)
(***************************************************************************)
Within(n) ==
    /\ steps < n
    /\ steps' = steps + 1

(***************************************************************************)
(* The history model: captures, follow-ups, the clock and restarts.        *)
(***************************************************************************)
NextHistory ==
    \/ Within(MaxHistorySteps) /\ Tick
    \/ Within(MaxHistorySteps) /\ Midnight
    \/ Within(MaxHistorySteps) /\ \E s \in Sockets : Connect(s)
    \/ Within(MaxHistorySteps) /\ \E hasFile \in BOOLEAN, provider \in Providers :
          AnalyzeStart(hasFile, provider)
    \/ Within(MaxHistorySteps) /\ \E i \in DOMAIN pendingScans, answer \in Replies :
          AnalyzeSucceed(i, answer)
    \/ Within(MaxHistorySteps) /\ \E i \in DOMAIN pendingScans : AnalyzeFail(i)
    \/ Within(MaxHistorySteps) /\ \E s \in Sockets, id \in ParentIds, p \in Prompts :
          FollowupStart(s, id, p)
    \/ Within(MaxHistorySteps) /\ \E j \in DOMAIN pendingFollowups, reply \in Replies :
          FollowupSucceed(j, reply)
    \/ Within(MaxHistorySteps) /\ \E j \in DOMAIN pendingFollowups : FollowupFail(j)
    \/ Within(MaxHistorySteps) /\ Restart

SpecHistory == InitHistory /\ [][NextHistory]_vars

(***************************************************************************)
(* The hub model: connections, registry, relay and pairing, with restarts. *)
(***************************************************************************)
InitHub ==
    /\ InitCommon
    /\ pairsFile \in {NoPairsFile, CorruptPairsFile}
    /\ pairs = loadPairs(pairsFile)
    /\ config = DefaultConfig
    /\ buckets = [d \in Days |-> NoFile]
    /\ history = loadHistory(NoFile)
    /\ appendLog = <<>>

NextHub ==
    \/ Within(MaxHubSteps) /\ \E s \in Sockets : Connect(s)
    \/ Within(MaxHubSteps) /\ \E s \in Sockets : Disconnect(s)
    \/ Within(MaxHubSteps) /\ \E s \in Sockets, n \in Names, m \in {FALSE}, d \in DeviceIds :
          Register(s, n, m, d)
    \/ Within(MaxHubSteps) /\ \E s \in Sockets, target \in 1..(MaxSockets + 1),
                                 data \in RelayData :
          Relay("request_pair", s, target, data)
    \/ Within(MaxHubSteps) /\ \E s \in Sockets, partner \in 1..(MaxSockets + 1),
                                 pn \in Names, t \in DeviceIds, tn \in Names,
                                 ok \in BOOLEAN :
          PairAccepted(s, partner, pn, t, tn, ok)
    \/ Within(MaxHubSteps) /\ \E s \in Sockets, o \in DeviceIds, t \in DeviceIds,
                                 ok \in BOOLEAN :
          RequestUnpair(s, o, t, ok)
    \/ Within(MaxHubSteps) /\ Restart

SpecHub == InitHub /\ [][NextHub]_vars

(***************************************************************************)
(* The relay model: connections, registry and every relay handler.         *)
(***************************************************************************)
NextRelay ==
    \/ Within(MaxRelaySteps) /\ \E s \in Sockets : Connect(s)
    \/ Within(MaxRelaySteps) /\ \E s \in Sockets : Disconnect(s)
    \/ Within(MaxRelaySteps) /\ \E s \in Sockets, n \in Names, m \in BOOLEAN,
                                   d \in DeviceIds :
          Register(s, n, m, d)
    \/ Within(MaxRelaySteps) /\ \E s \in Sockets : RequestHistory(s)
    \/ Within(MaxRelaySteps) /\ \E s \in Sockets : ToggleDeviceType(s)
    \/ Within(MaxRelaySteps) /\ \E s \in Sockets, active \in BOOLEAN :
          CameraStatus(s, active)
    \/ Within(MaxRelaySteps) /\ \E kind \in RelayKinds, s \in Sockets,
                                   target \in 1..(MaxSockets + 1), data \in RelayData :
          Relay(kind, s, target, data)

SpecRelay == InitHub /\ [][NextRelay]_vars

(***************************************************************************)
(* The pairing-store model: the handshake and the unpair request over the  *)
(* pairing files an earlier run of the hub may have left behind.           *)
(***************************************************************************)
\* Pairing maps written by earlier runs: one edge, two edges of one device,
\* and an edge that was removed again (its keys stay, with empty lists).
InitPairMap(i) ==
    LET one == addPair(EmptyMap, "AAA1", "n1", "BBB2", "n1")
    IN  CASE i = 1 -> one
          [] i = 2 -> addPair(one, "AAA1", "n1", "CCC3", "n1")
          [] i = 3 -> removePair(one, "AAA1", "BBB2")

InitPairing ==
    /\ InitCommon
    /\ \/ pairsFile = NoPairsFile
       \/ \E i \in 1..3 : pairsFile = PairsFileOf(InitPairMap(i))
    /\ pairs = loadPairs(pairsFile)
    /\ config = DefaultConfig
    /\ buckets = [d \in Days |-> NoFile]
    /\ history = loadHistory(NoFile)
    /\ appendLog = <<>>

NextPairing ==
    \/ Within(MaxPairingSteps) /\ \E s \in Sockets : Connect(s)
    \/ Within(MaxPairingSteps) /\ \E s \in Sockets : Disconnect(s)
    \/ Within(MaxPairingSteps) /\ \E s \in Sockets, n \in Names, m \in {FALSE},
                                     d \in DeviceIds :
          Register(s, n, m, d)
    \/ Within(MaxPairingSteps) /\ \E s \in Sockets, partner \in Sockets,
                                     pn \in PairNames, t \in DeviceIds,
                                     tn \in Names, ok \in BOOLEAN :
          PairAccepted(s, partner, pn, t, tn, ok)
    \/ Within(MaxPairingSteps) /\ \E s \in Sockets, o \in DeviceIds, t \in DeviceIds,
                                     ok \in BOOLEAN :
          RequestUnpair(s, o, t, ok)
    \/ Within(MaxPairingSteps) /\ Restart

SpecPairing == InitPairing /\ [][NextPairing]_vars

(***************************************************************************)
(* The event loop during provider calls: captures and follow-ups suspended *)
(* at their await, next to the registry, relay and pairing handlers.       *)
(***************************************************************************)
NextConcurrent ==
    \/ Within(MaxConcurrentSteps) /\ \E s \in Sockets : Connect(s)
    \/ Within(MaxConcurrentSteps) /\ \E provider \in Providers :
          AnalyzeStart(TRUE, provider)
    \/ Within(MaxConcurrentSteps) /\ \E i \in DOMAIN pendingScans, answer \in Replies :
          AnalyzeSucceed(i, answer)
    \/ Within(MaxConcurrentSteps) /\ \E i \in DOMAIN pendingScans : AnalyzeFail(i)
    \/ Within(MaxConcurrentSteps) /\ \E s \in Sockets, p \in Prompts :
          FollowupStart(s, StartNow, p)
    \/ Within(MaxConcurrentSteps) /\ \E j \in DOMAIN pendingFollowups, reply \in Replies :
          FollowupSucceed(j, reply)
    \/ Within(MaxConcurrentSteps) /\ \E j \in DOMAIN pendingFollowups : FollowupFail(j)
    \/ Within(MaxConcurrentSteps) /\ \E s \in Sockets, n \in Names, d \in DeviceIds :
          Register(s, n, FALSE, d)
    \/ Within(MaxConcurrentSteps) /\ \E s \in Sockets, active \in BOOLEAN :
          CameraStatus(s, active)
    \/ Within(MaxConcurrentSteps) /\ \E kind \in {"signal_offer", "request_pair"},
                                        s \in Sockets, target \in Sockets,
                                        data \in RelayData :
          Relay(kind, s, target, data)
    \/ Within(MaxConcurrentSteps) /\ \E s \in Sockets, partner \in Sockets, pn \in Names,
                                        t \in DeviceIds, tn \in Names :
          PairAccepted(s, partner, pn, t, tn, TRUE)

SpecConcurrent == InitHub /\ [][NextConcurrent]_vars

(***************************************************************************)
(* The startup model: the hub starts over a pairs.json that is missing,    *)
(* unparsable, or parses to null, and serves the pairing handlers.         *)
(***************************************************************************)
InitStartup ==
    /\ InitCommon
    /\ pairsFile \in {NoPairsFile, CorruptPairsFile, NullPairsFile}
    /\ pairs = loadPairs(pairsFile)
    /\ config = DefaultConfig
    /\ buckets = [d \in Days |-> NoFile]
    /\ history = loadHistory(NoFile)
    /\ appendLog = <<>>

NextStartup ==
    \/ Within(MaxStartupSteps) /\ \E s \in Sockets : Connect(s)
    \/ Within(MaxStartupSteps) /\ \E s \in Sockets : Disconnect(s)
    \/ Within(MaxStartupSteps) /\ \E s \in Sockets, n \in Names, d \in DeviceIds :
          Register(s, n, FALSE, d)
    \/ Within(MaxStartupSteps) /\ \E s \in Sockets, partner \in Sockets,
                                     pn \in Names, t \in DeviceIds, tn \in Names,
                                     ok \in BOOLEAN :
          PairAccepted(s, partner, pn, t, tn, ok)
    \/ Within(MaxStartupSteps) /\ \E s \in Sockets, o \in DeviceIds, t \in DeviceIds,
                                     ok \in BOOLEAN :
          RequestUnpair(s, o, t, ok)
    \/ Within(MaxStartupSteps) /\ Restart

SpecStartup == InitStartup /\ [][NextStartup]_vars

(***************************************************************************)
(* The thread model: follow-ups with different prompts on the records of a *)
(* short bucket, next to captures, the clock and restarts.                 *)
(***************************************************************************)
\* The prompts of the follow-ups; they tell the thread entries apart.
ThreadPrompts == {"p1", "p2"}
\* The records asked about: the newest stored one and the first capture of
\* this run.
ThreadParentIds == {StartNow - 1, StartNow}

InitThreads ==
    /\ InitCommon
    /\ pairsFile = NoPairsFile
    /\ pairs = EmptyMap
    /\ config = DefaultConfig
    /\ \E f \in {NoFile, File(PastLines(2))} :
          /\ buckets = [d \in Days |-> IF d = 0 THEN f ELSE NoFile]
          /\ history = loadHistory(f)
          /\ appendLog = StripAll(RecordsOf(f))

NextThreads ==
    \/ Within(MaxThreadSteps) /\ Tick
    \/ Within(MaxThreadSteps) /\ Midnight
    \/ Within(MaxThreadSteps) /\ \E s \in Sockets : Connect(s)
    \/ Within(MaxThreadSteps) /\ AnalyzeStart(TRUE, "ollama")
    \/ Within(MaxThreadSteps) /\ \E i \in DOMAIN pendingScans, answer \in Replies :
          AnalyzeSucceed(i, answer)
    \/ Within(MaxThreadSteps) /\ \E s \in Sockets, id \in ThreadParentIds,
                                    p \in ThreadPrompts :
          FollowupStart(s, id, p)
    \/ Within(MaxThreadSteps) /\ \E j \in DOMAIN pendingFollowups, reply \in Replies :
          FollowupSucceed(j, reply)
    \/ Within(MaxThreadSteps) /\ \E j \in DOMAIN pendingFollowups : FollowupFail(j)
    \/ Within(MaxThreadSteps) /\ Restart

SpecThreads == InitThreads /\ [][NextThreads]_vars

(***************************************************************************)
(* The model of captures followed by follow-ups: a hub started without     *)
(* history takes captures, with or without a clock tick between them, and  *)
(* then follow-ups on the first capture's id.                              *)
(***************************************************************************)
NextSync ==
    \/ Within(MaxSyncSteps) /\ Tick
    \/ Within(MaxSyncSteps) /\ Connect(1)
    \/ Within(MaxSyncSteps) /\ AnalyzeStart(TRUE, "ollama")
    \/ Within(MaxSyncSteps) /\ \E i \in DOMAIN pendingScans, answer \in Replies :
          AnalyzeSucceed(i, answer)
    \/ Within(MaxSyncSteps) /\ \E p \in Prompts : FollowupStart(1, StartNow, p)
    \/ Within(MaxSyncSteps) /\ \E j \in DOMAIN pendingFollowups, reply \in Replies :
          FollowupSucceed(j, reply)
    \/ Within(MaxSyncSteps) /\ Restart

SpecSync == InitHub /\ [][NextSync]_vars

(***************************************************************************)
(* The model of all handlers: every socket and HTTP handler of the hub    *)
(* over a pairing file an earlier run may have left behind.                *)
(***************************************************************************)
NextFrame ==
    \/ Within(MaxFrameSteps) /\ \E s \in Sockets : Connect(s)
    \/ Within(MaxFrameSteps) /\ \E s \in Sockets : Disconnect(s)
    \/ Within(MaxFrameSteps) /\ \E s \in Sockets, d \in DeviceIds :
          Register(s, "n1", FALSE, d)
    \/ Within(MaxFrameSteps) /\ \E s \in Sockets : RequestHistory(s)
    \/ Within(MaxFrameSteps) /\ \E s \in Sockets : ToggleDeviceType(s)
    \/ Within(MaxFrameSteps) /\ \E s \in Sockets : CameraStatus(s, TRUE)
    \/ Within(MaxFrameSteps) /\ \E kind \in RelayKinds, s \in Sockets,
                                   target \in Sockets, data \in RelayData :
          Relay(kind, s, target, data)
    \/ Within(MaxFrameSteps) /\ \E s \in Sockets, partner \in Sockets,
                                   t \in DeviceIds, ok \in BOOLEAN :
          PairAccepted(s, partner, "n1", t, "n1", ok)
    \/ Within(MaxFrameSteps) /\ \E s \in Sockets, o \in DeviceIds, t \in DeviceIds,
                                   ok \in BOOLEAN :
          RequestUnpair(s, o, t, ok)
    \/ Within(MaxFrameSteps) /\ AnalyzeStart(TRUE, "ollama")
    \/ Within(MaxFrameSteps) /\ \E i \in DOMAIN pendingScans, answer \in Replies :
          AnalyzeSucceed(i, answer)
    \/ Within(MaxFrameSteps) /\ \E i \in DOMAIN pendingScans : AnalyzeFail(i)
    \/ Within(MaxFrameSteps) /\ \E s \in Sockets, p \in Prompts :
          FollowupStart(s, StartNow, p)
    \/ Within(MaxFrameSteps) /\ \E j \in DOMAIN pendingFollowups, reply \in Replies :
          FollowupSucceed(j, reply)
    \/ Within(MaxFrameSteps) /\ \E j \in DOMAIN pendingFollowups : FollowupFail(j)
    \/ Within(MaxFrameSteps) /\ Restart

SpecFrame == InitPairing /\ [][NextFrame]_vars

(***************************************************************************)
(* The capture model: POST /analyze requests of a process that stays up.   *)
(* The steps that start something are bounded; the continuation of a       *)
(* pending provider call is not, and every provider call returns: the      *)
(* promise a handler awaits is settled, and the event loop then runs the   *)
(* continuation.                                                           *)
(***************************************************************************)
NextCapture ==
    \/ Within(MaxCaptureSteps) /\ Tick
    \/ Within(MaxCaptureSteps) /\ \E s \in Sockets : Connect(s)
    \/ Within(MaxCaptureSteps) /\ \E hasFile \in BOOLEAN, provider \in Providers :
          AnalyzeStart(hasFile, provider)
    \/ UNCHANGED steps /\ \E i \in DOMAIN pendingScans, answer \in Replies :
          AnalyzeSucceed(i, answer)
    \/ UNCHANGED steps /\ \E i \in DOMAIN pendingScans : AnalyzeFail(i)

\* The provider call of the i-th pending capture returns, one way or the other.
ProviderReturns(i) ==
    /\ UNCHANGED steps
    /\ \/ \E answer \in Replies : AnalyzeSucceed(i, answer)
       \/ AnalyzeFail(i)

SpecCapture ==
    /\ InitHub
    /\ [][NextCapture]_vars
    /\ \A i \in 1..MaxCaptureSteps : WF_vars(ProviderReturns(i))

(***************************************************************************)
(* Properties                                                              *)
(***************************************************************************)
Emitted(ms, ev) == {i \in 1..Len(ms) : ms[i].ev = ev}

\* The stored copies of the records with a given id.
InMemory(h, id) == {i \in 1..Len(h) : h[i].id = id}
InBucket(file, id) ==
    {k \in 1..Len(file.lines) : Parses(file.lines[k]) /\ JSONParse(file.lines[k]).id = id}
Stored(id) == InMemory(history, id) # {} \/ \E d \in Days : InBucket(buckets[d], id) # {}

\* C1: in every reachable state of the pairing store, B is in the pairing
\* list of A if and only if A is in the pairing list of B.
C1_PairingSymmetry ==
    \A a \in DeviceIds, b \in DeviceIds :
        HasPeer(EdgesOrEmpty(pairs, a), b) <=> HasPeer(EdgesOrEmpty(pairs, b), a)

\* An unpair has just run and an edge between two different devices remains.
C1_Witness ==
    /\ lastOp.kind = "request_unpair"
    /\ \E a \in DeviceIds, b \in DeviceIds :
          /\ a # b
          /\ HasPeer(EdgesOrEmpty(pairs, a), b)
          /\ HasPeer(EdgesOrEmpty(pairs, b), a)
    /\ \E a \in DOMAIN pairs : pairs[a] = <<>>

RelayedEvents == {RelayedEvent(k) : k \in RelayKinds}

\* C2: a relayed signaling message sent with target X is delivered to no
\* connection other than X, and no other handler emits a signaling event.
C2_RelayIsolation ==
    \A i \in 1..Len(sent) :
        sent[i].ev \in RelayedEvents =>
            /\ lastOp.kind = "relay"
            /\ sent[i].rcpt \subseteq {lastOp.target}

\* A relay has delivered its message to the target while the sender, a
\* different connection, is connected too.
C2_Witness ==
    /\ lastOp.kind = "relay"
    /\ lastOp.target # lastOp.socket
    /\ {lastOp.target, lastOp.socket} \subseteq connected
    /\ DOMAIN connectedDevices # {}
    /\ Len(sent) = 1
    /\ sent[1].rcpt = {lastOp.target}

\* C3: once more than 50 records have been appended, the in-memory history
\* holds exactly 50 records, the 50 appended last, most recent first (so each
\* eviction has removed the record inserted earliest).
C3_HistoryRing ==
    Len(appendLog) > HISTORY_LIMIT =>
        /\ Len(history) = HISTORY_LIMIT
        /\ \A i \in 1..HISTORY_LIMIT :
              Strip(history[i]) = appendLog[Len(appendLog) - i + 1]

\* A capture has just succeeded as the 51st record of a history that held 49
\* at start: this append evicted a record.
C3_Witness ==
    /\ lastOp.kind = "analyze_ok"
    /\ Len(appendLog) = HISTORY_LIMIT + 1
    /\ Len(history) = HISTORY_LIMIT
    /\ history[1] = lastOp.record

\* C4: when a capture's provider call fails, scan_failed and error are
\* broadcast, no bucket changes and the in-memory history is unchanged.
C4_FailedCaptureLeavesNoRecord ==
    [][lastOp'.kind = "analyze_failed" =>
          /\ \E i \in Emitted(sent', "scan_failed") :
                sent'[i].to = Broadcast /\ sent'[i].rcpt = connected
          /\ \E i \in Emitted(sent', "error") :
                sent'[i].to = Broadcast /\ sent'[i].rcpt = connected
          /\ Emitted(sent', "new_answer") = {}
          /\ buckets' = buckets
          /\ history' = history]_vars

\* A capture has just failed while a client is connected, the history holds
\* records and the capture's bucket exists.
C4_Witness ==
    /\ lastOp.kind = "analyze_failed"
    /\ connected # {}
    /\ history # <<>>
    /\ buckets[lastOp.day].exists
    /\ Emitted(sent, "scan_failed") # {}

\* C5: when a capture's provider call succeeds, exactly one new_answer is
\* broadcast, exactly one line (the record) is appended to the capture's
\* bucket, and the history gains exactly that record at its head.
C5_SuccessfulCaptureStoresOneRecord ==
    [][lastOp'.kind = "analyze_ok" =>
          LET r == lastOp'.record
              d == lastOp'.day
          IN  /\ Cardinality(Emitted(sent', "new_answer")) = 1
              /\ \A i \in Emitted(sent', "new_answer") :
                    /\ sent'[i].to = Broadcast
                    /\ sent'[i].rcpt = connected
                    /\ sent'[i].data = r
              /\ buckets'[d].exists
              /\ buckets'[d].lines = buckets[d].lines \o <<JSONStringify(r)>>
              /\ \A e \in Days \ {d} : buckets'[e] = buckets[e]
              /\ Len(history') =
                    IF Len(history) < HISTORY_LIMIT THEN Len(history) + 1
                    ELSE HISTORY_LIMIT
              /\ history'[1] = r
              /\ \A i \in 2..Len(history') : history'[i] = history[i - 1]]_vars

\* A capture has just succeeded on top of stored records, with a client
\* connected.
C5_Witness ==
    /\ lastOp.kind = "analyze_ok"
    /\ connected # {}
    /\ Len(history) >= 2
    /\ Len(buckets[lastOp.day].lines) >= 2
    /\ Len(history) < HISTORY_LIMIT

\* C6 (as claimed): a follow-up whose parentId matches a stored record grows
\* the thread of every stored copy of that record, in memory and in the day
\* buckets, by exactly the new entry at the end.
C6_ThreadGrowsInBothStores ==
    [][(lastOp'.kind = "followup_ok" /\ Stored(lastOp'.parentId)) =>
          LET id == lastOp'.parentId
              e  == lastOp'.entry
          IN  /\ \A i \in InMemory(history, id) :
                    history'[i] = PushThread(history[i], e)
              /\ \A d \in Days : \A k \in InBucket(buckets[d], id) :
                    /\ Len(buckets'[d].lines) = Len(buckets[d].lines)
                    /\ buckets'[d].lines[k] =
                          JSONStringify(PushThread(JSONParse(buckets[d].lines[k]), e))]_vars

\* C7 (as claimed): the bucket a follow-up rewrites is the bucket of the
\* record's creation date, whatever the day on which it is answered.
C7_FollowupUsesCaptureBucket ==
    lastOp.kind = "followup_ok" =>
        \A i \in InMemory(history, lastOp.parentId) :
            lastOp.day = Day(history[i].rawDate)

\* C8 (as claimed): whenever a followup_result for a stored record R is
\* broadcast, the entry has been appended to a stored copy of R.
C8_BroadcastImpliesAppend ==
    [][\A m \in Emitted(sent', "followup_result") :
          Stored(sent'[m].data.parentId) =>
             LET id == sent'[m].data.parentId
                 e  == lastOp'.entry
             IN  \/ \E i \in InMemory(history, id) :
                       history'[i] = PushThread(history[i], e)
                 \/ \E d \in Days : \E k \in InBucket(buckets[d], id) :
                       /\ k <= Len(buckets'[d].lines)
                       /\ buckets'[d].lines[k] =
                             JSONStringify(PushThread(JSONParse(buckets[d].lines[k]), e))]_vars

\* C9 (as claimed): a follow-up whose parentId matches no record in memory or
\* in the durable log sends an error signal to the connection that asked.
C9_NotFoundIsSurfaced ==
    [][(lastOp'.kind = "followup_ok" /\ ~Stored(lastOp'.parentId)) =>
          \E i \in Emitted(sent', "error") : sent'[i].to = lastOp'.socket]_vars

\* C10: a follow-up whose parentId matches no record leaves every bucket
\* file and every in-memory record as they were.
C10_UnknownParentChangesNothing ==
    [][(lastOp'.kind = "followup_ok" /\ ~Stored(lastOp'.parentId)) =>
          /\ buckets' = buckets
          /\ history' = history]_vars

\* A follow-up for an unknown parent has been answered while today's bucket
\* holds records and a malformed line, and the history holds records.
C10_Witness ==
    /\ lastOp.kind = "followup_ok"
    /\ ~Stored(lastOp.parentId)
    /\ buckets[lastOp.day].exists
    /\ \E k \in 1..Len(buckets[lastOp.day].lines) : ~Parses(buckets[lastOp.day].lines[k])
    /\ \E k \in 1..Len(buckets[lastOp.day].lines) : Parses(buckets[lastOp.day].lines[k])
    /\ history # <<>>


\* C11: when a follow-up's provider call fails, the handler emits one error
\* signal, addressed to the requesting connection and delivered to nobody
\* else; no followup_result is emitted and neither the in-memory history nor
\* any bucket changes.
C11_FollowupFailureIsPrivate ==
    [][lastOp'.kind = "followup_failed" =>
          /\ Emitted(sent', "followup_result") = {}
          /\ Emitted(sent', "error") # {}
          /\ \A i \in 1..Len(sent') :
                /\ sent'[i].ev = "error"
                /\ sent'[i].to = lastOp'.socket
                /\ sent'[i].rcpt \subseteq {lastOp'.socket}
          /\ history' = history
          /\ buckets' = buckets]_vars

\* A follow-up on a record held in memory and in today's bucket has failed
\* while a second connection is open; the asker alone got the error.
C11_Witness ==
    /\ lastOp.kind = "followup_failed"
    /\ Cardinality(connected) >= 2
    /\ InMemory(history, lastOp.parentId) # {}
    /\ InBucket(buckets[getDailyPath], lastOp.parentId) # {}
    /\ Len(sent) = 1
    /\ sent[1].rcpt = {lastOp.socket}

Reverse(s) == [i \in 1..Len(s) |-> s[Len(s) - i + 1]]

\* C12: when the process restarts on a day whose bucket holds the records
\* r1..rN (N <= 50) on its well-formed lines, the in-memory history after the
\* restart is rN..r1, each record with the thread stored on its line;
\* malformed lines are skipped and do not stop the load.
C12_RestartReplaysBucket ==
    [][lastOp'.kind = "restart" =>
          LET rs == RecordsOf(buckets[Day(now)])
          IN  /\ buckets' = buckets
              /\ Len(rs) <= HISTORY_LIMIT => history' = Reverse(rs)]_vars

\* The process has restarted on a bucket that holds a malformed line between
\* its records and a record whose thread a follow-up has persisted.
C12_Witness ==
    /\ lastOp.kind = "restart"
    /\ \E k \in 2..Len(buckets[getDailyPath].lines) :
          /\ ~Parses(buckets[getDailyPath].lines[k])
          /\ Parses(buckets[getDailyPath].lines[k - 1])
    /\ \E i \in 1..Len(history) : ThreadOf(history[i]) # <<>>
    /\ Len(history) = HISTORY_LIMIT - 1

HasEntry(list, id, name) ==
    \E i \in 1..Len(list) : list[i] = [id |-> id, name |-> name]

\* C13: when the connection registered as device B sends pair_accepted for
\* itself, naming the registered connection of another device A as partner,
\* the store holds the edge A-B afterwards, and A's connection and B's
\* connection are each sent a paired_devices_sync list with an entry for the
\* other device; if the edge is new, the entries are the {id, name} pairs of
\* the handshake.
C13_HandshakeSyncsBothSides ==
    [][LET s == lastOp'.socket
           p == lastOp'.partnerId
           b == lastOp'.targetId
       IN  (/\ lastOp'.kind = "pair_accepted"
            /\ s \in DOMAIN connectedDevices
            /\ connectedDevices[s].deviceId = b
            /\ p \in DOMAIN connectedDevices
            /\ p \in connected
            /\ connectedDevices[p].deviceId # b) =>
           LET a == connectedDevices[p].deviceId
               isNew == ~HasPeer(EdgesOrEmpty(pairs, a), b)
           IN  /\ HasPeer(EdgesOrEmpty(pairs', a), b)
               /\ HasPeer(EdgesOrEmpty(pairs', b), a)
               /\ \E i \in Emitted(sent', "paired_devices_sync") :
                     /\ sent'[i].rcpt = {p}
                     /\ HasPeer(sent'[i].data, b)
                     /\ isNew => HasEntry(sent'[i].data, b, lastOp'.targetName)
               /\ \E i \in Emitted(sent', "paired_devices_sync") :
                     /\ sent'[i].rcpt = {s}
                     /\ HasPeer(sent'[i].data, a)
                     /\ isNew => HasEntry(sent'[i].data, a, lastOp'.partnerName)]_vars

\* Device B has accepted the request of device A, both registered on their
\* own connections, with different display names, and the edge is stored.
C13_Witness ==
    /\ lastOp.kind = "pair_accepted"
    /\ lastOp.added
    /\ lastOp.socket # lastOp.partnerId
    /\ {lastOp.socket, lastOp.partnerId} \subseteq DOMAIN connectedDevices
    /\ connectedDevices[lastOp.socket].deviceId = lastOp.targetId
    /\ connectedDevices[lastOp.partnerId].deviceId # lastOp.targetId
    /\ lastOp.partnerName # lastOp.targetName
    /\ HasEntry(EdgesOrEmpty(pairs, lastOp.targetId),
                connectedDevices[lastOp.partnerId].deviceId, lastOp.partnerName)
    /\ Len(sent) = 3

\* C14: after a pair_accepted that adds an edge, or a request_unpair, whose
\* write of pairs.json succeeds, the file holds exactly the in-memory map and
\* loading it gives that map back; a restart leaves the file alone and, when
\* the file was in step with memory, comes up with the same edges.
C14_PairsFileFollowsMemory ==
    [][/\ (lastOp'.kind \in {"pair_accepted", "request_unpair"} /\ lastOp'.saved) =>
             /\ pairsFile'.kind = "map"
             /\ pairsFile'.content = pairs'
             /\ loadPairs(pairsFile') = pairs'
       /\ lastOp'.kind = "restart" =>
             /\ pairsFile' = pairsFile
             /\ (pairsFile.kind = "map" /\ pairsFile.content = pairs) => pairs' = pairs]_vars

\* The process has restarted on a pairing file that holds an edge between two
\* devices next to a device whose last edge was removed, and memory holds
\* the same.
C14_Witness ==
    /\ lastOp.kind = "restart"
    /\ pairsFile.kind = "map"
    /\ pairsFile.content = pairs
    /\ \E a \in DOMAIN pairs, b \in DeviceIds : a # b /\ HasPeer(pairs[a], b)
    /\ \E a \in DOMAIN pairs : pairs[a] = <<>>

CountPeer(list, id) == Cardinality({i \in 1..Len(list) : list[i].id = id})

\* C15: no pairing list ever holds two entries with the same peer id; an
\* addPair (through pair_accepted) leaves exactly one entry for B in A's list
\* and one for A in B's list, and when the edge existed already, in either
\* argument order, the map is left as it was.
C15_AddPairIsIdempotent ==
    /\ [](\A a \in DOMAIN pairs : \A id \in DeviceIds : CountPeer(pairs[a], id) <= 1)
    /\ [][(lastOp'.kind = "pair_accepted" /\ lastOp'.added) =>
             LET b == lastOp'.targetId
                 a == connectedDevices[lastOp'.partnerId].deviceId
             IN  /\ CountPeer(pairs'[a], b) = 1
                 /\ CountPeer(pairs'[b], a) = 1
                 /\ (HasPeer(EdgesOrEmpty(pairs, a), b) \/ HasPeer(EdgesOrEmpty(pairs, b), a))
                       => pairs' = pairs]_vars

\* A handshake has run for an edge that was stored before under another
\* name: the list still holds its single, older entry.
C15_Witness ==
    /\ lastOp.kind = "pair_accepted"
    /\ lastOp.added
    /\ lastOp.partnerId \in DOMAIN connectedDevices
    /\ connectedDevices[lastOp.partnerId].deviceId # lastOp.targetId
    /\ \E n \in PairNames :
          /\ n # lastOp.partnerName
          /\ HasEntry(pairs[lastOp.targetId],
                      connectedDevices[lastOp.partnerId].deviceId, n)
    /\ CountPeer(pairs[lastOp.targetId], connectedDevices[lastOp.partnerId].deviceId) = 1

\* C16: after removePair(A, B) (through request_unpair) A's list has no entry
\* for B and B's list none for A, the keys of the map and every other entry
\* are as before, in the same order; when the edge was absent the whole map
\* is unchanged.
C16_RemovePairRemovesOnlyTheEdge ==
    [][lastOp'.kind = "request_unpair" =>
          LET o == lastOp'.originId
              t == lastOp'.targetId
              Other(k, e) == ~((k = o /\ e.id = t) \/ (k = t /\ e.id = o))
          IN  /\ ~HasPeer(EdgesOrEmpty(pairs', o), t)
              /\ ~HasPeer(EdgesOrEmpty(pairs', t), o)
              /\ DOMAIN pairs' = DOMAIN pairs
              /\ \A k \in DOMAIN pairs :
                    pairs'[k] = SelectSeq(pairs[k], LAMBDA e : Other(k, e))
              /\ (~HasPeer(EdgesOrEmpty(pairs, o), t) /\ ~HasPeer(EdgesOrEmpty(pairs, t), o))
                    => pairs' = pairs]_vars

\* An unpair has emptied the target's list while the origin keeps an edge to
\* a third device.
C16_Witness ==
    /\ lastOp.kind = "request_unpair"
    /\ lastOp.originId # lastOp.targetId
    /\ {lastOp.originId, lastOp.targetId} \subseteq DOMAIN pairs
    /\ pairs[lastOp.targetId] = <<>>
    /\ pairs[lastOp.originId] # <<>>
    /\ ~HasPeer(pairs[lastOp.originId], lastOp.targetId)
    /\ pairsFile.kind = "map"
    /\ pairsFile.content # pairs

\* C17: a relayed message whose target is not a live connection reaches
\* nobody (the sender gets no error either) and changes nothing in the hub;
\* nothing is kept for later: a connection that opens receives the history
\* and the device list only.
C17_AbsentTargetIsDropped ==
    [][/\ (lastOp'.kind = "relay" /\ lastOp'.target \notin connected) =>
             /\ \A i \in 1..Len(sent') : sent'[i].rcpt = {}
             /\ UNCHANGED <<connected, hubVars, config, histVars>>
       /\ lastOp'.kind = "connect" =>
             \A i \in 1..Len(sent') :
                 /\ sent'[i].ev \in {"history_update", "device_list"}
                 /\ sent'[i].rcpt = {lastOp'.socket}]_vars

\* A registered connection has relayed a message to a connection that was
\* open earlier and has disconnected.
C17_Witness ==
    /\ lastOp.kind = "relay"
    /\ lastOp.target \notin connected
    /\ lastOp.target <= socketIds
    /\ lastOp.socket \in DOMAIN connectedDevices
    /\ Len(sent) = 1
    /\ sent[1].rcpt = {}

\* The events of the six signaling kinds (pair requests are a different flow).
SignalingEvents ==
    {RelayedEvent(k) : k \in RelayKinds \ {"request_pair"}}

\* C18 (as claimed): every relayed signaling message that is delivered to its
\* target carries the sender's socket id as its origin identifier.
C18_RelayCarriesOrigin ==
    \A i \in 1..Len(sent) :
        (sent[i].ev \in SignalingEvents /\ sent[i].rcpt # {}) =>
            \E f \in {"originId", "requesterId"} \cap DOMAIN sent[i].data :
                sent[i].data[f] = lastOp.socket

Terminals(ms) == Emitted(ms, "new_answer") \cup Emitted(ms, "scan_failed")

ProviderCallPending == pendingScans # <<>> \/ pendingFollowups # <<>>

HubHandlers == {"register", "camera_status", "relay", "pair_accepted"}

\* C20: while a capture's or a follow-up's provider call is pending, every
\* connection can still have its register, camera_status, relay and
\* pair_accepted events handled; such a handler runs to its end with its
\* usual effect and leaves the pending calls as they are.
C20_HandlersRunDuringProviderCall ==
    /\ [](ProviderCallPending =>
             \A s \in connected :
                 /\ \A d \in DeviceIds : ENABLED Register(s, "n1", FALSE, d)
                 /\ \A active \in BOOLEAN : ENABLED CameraStatus(s, active)
                 /\ \A t \in Sockets, data \in RelayData :
                       ENABLED Relay("signal_offer", s, t, data)
                 /\ \A p \in Sockets, t \in DeviceIds :
                       ENABLED PairAccepted(s, p, "n1", t, "n1", TRUE))
    /\ [][(ProviderCallPending /\ lastOp'.kind \in HubHandlers) =>
             /\ pendingScans' = pendingScans
             /\ pendingFollowups' = pendingFollowups
             /\ lastOp'.kind = "register" =>
                   /\ lastOp'.socket \in DOMAIN connectedDevices'
                   /\ connectedDevices'[lastOp'.socket].deviceId = lastOp'.deviceId
                   /\ \E i \in Emitted(sent', "device_list") :
                         /\ sent'[i].rcpt = connected
                         /\ sent'[i].data = DeviceValuesOf(connectedDevices')
             /\ (lastOp'.kind = "camera_status"
                   /\ lastOp'.socket \in DOMAIN connectedDevices) =>
                   /\ connectedDevices'[lastOp'.socket].hasCamera = lastOp'.active
                   /\ \E i \in Emitted(sent', "device_list") : sent'[i].rcpt = connected
             /\ lastOp'.kind = "relay" =>
                   /\ Len(sent') = 1
                   /\ sent'[1].rcpt = {lastOp'.target} \cap connected
             /\ (lastOp'.kind = "pair_accepted" /\ lastOp'.added) =>
                   LET a == connectedDevices[lastOp'.partnerId].deviceId
                       b == lastOp'.targetId
                   IN  /\ HasPeer(pairs'[a], b)
                       /\ HasPeer(pairs'[b], a)
                       /\ pairsFile' = PairsFileOf(pairs')]_vars

\* A connection has registered while a capture is waiting for its provider
\* and another connection's follow-up is waiting for its own.
C20_Witness ==
    /\ lastOp.kind = "register"
    /\ pendingScans # <<>>
    /\ pendingFollowups # <<>>
    /\ \A j \in 1..Len(pendingFollowups) : pendingFollowups[j].socket # lastOp.socket
    /\ lastOp.socket \in DOMAIN connectedDevices
    /\ Emitted(sent, "device_list") # {}

\* C21 (as claimed): on every register the registering connection is sent
\* its pairing edges (the empty list when its stable id has none), the
\* history window, and the full device list with its own new entry in it.
C21_RegisterRepliesWithEdgesHistoryDevices ==
    [][lastOp'.kind = "register" =>
          LET s == lastOp'.socket
          IN  /\ \E i \in Emitted(sent', "paired_devices_sync") :
                    /\ s \in sent'[i].rcpt
                    /\ sent'[i].data = EdgesOrEmpty(pairs, lastOp'.deviceId)
              /\ \E i \in Emitted(sent', "history_update") :
                    /\ s \in sent'[i].rcpt
                    /\ sent'[i].data = history
              /\ \E i \in Emitted(sent', "device_list") :
                    /\ s \in sent'[i].rcpt
                    /\ sent'[i].data = DeviceValuesOf(connectedDevices')
                    /\ \E k \in 1..Len(sent'[i].data) : sent'[i].data[k].id = s]_vars

RegistryHandlers == {"register", "toggle_device_type", "camera_status", "disconnect"}

\* C22: every handler step that changes the device registry, and every
\* register and disconnect, broadcasts a device_list after the change that
\* carries the whole registry and reaches every connection left; the
\* registry changes in no other handler, so the last device_list broadcast
\* is the current registry.
C22_RegistryChangeIsBroadcast ==
    [][/\ (connectedDevices' # connectedDevices /\ lastOp'.kind # "restart") =>
             lastOp'.kind \in RegistryHandlers
       /\ (lastOp'.kind \in RegistryHandlers
             /\ (connectedDevices' # connectedDevices
                   \/ lastOp'.kind \in {"register", "disconnect"})) =>
             /\ Emitted(sent', "device_list") # {}
             /\ LET i == CHOOSE k \in Emitted(sent', "device_list") :
                            \A j \in Emitted(sent', "device_list") : j <= k
                IN  /\ i = Len(sent')
                    /\ sent'[i].to = Broadcast
                    /\ sent'[i].rcpt = connected'
                    /\ sent'[i].data = DeviceValuesOf(connectedDevices')]_vars

\* A registered connection has switched its device type while a second
\* registered connection is open, and both got the new list.
C22_Witness ==
    /\ lastOp.kind = "toggle_device_type"
    /\ Cardinality(DOMAIN connectedDevices) >= 2
    /\ connectedDevices[lastOp.socket].isMobile
    /\ Len(sent) = 1
    /\ sent[1].ev = "device_list"
    /\ sent[1].rcpt = connected

\* C23: register sets the registry entry of the sender's socket id, built
\* from the payload, and leaves every other entry as it was, also an entry
\* of another connection with the same stable id.
C23_RegisterSetsOwnEntryOnly ==
    [][lastOp'.kind = "register" =>
          LET s == lastOp'.socket
          IN  /\ DOMAIN connectedDevices' = DOMAIN connectedDevices \cup {s}
              /\ connectedDevices'[s].id = s
              /\ connectedDevices'[s].deviceId = lastOp'.deviceId
              /\ ~connectedDevices'[s].hasCamera
              /\ \A k \in DOMAIN connectedDevices \ {s} :
                    connectedDevices'[k] = connectedDevices[k]]_vars

\* Two live connections have registered the same stable id and both entries
\* are in the registry; the one registered first has its camera on.
C23_Witness ==
    /\ lastOp.kind = "register"
    /\ \E k \in DOMAIN connectedDevices :
          /\ k # lastOp.socket
          /\ connectedDevices[k].deviceId = lastOp.deviceId
          /\ connectedDevices[k].hasCamera
    /\ lastOp.socket \in DOMAIN connectedDevices

\* C24: a camera_status or toggle_device_type event from a connection that
\* has no registry entry changes nothing in the registry and emits nothing
\* (no entry is created, no error is sent).
C24_UnknownConnectionIsNoOp ==
    [][(lastOp'.kind \in {"camera_status", "toggle_device_type"}
          /\ lastOp'.socket \notin DOMAIN connectedDevices) =>
             /\ connectedDevices' = connectedDevices
             /\ sent' = <<>>
             /\ connected' = connected]_vars

\* A connection that never registered has reported its camera as active
\* while another connection is registered.
C24_Witness ==
    /\ lastOp.kind = "camera_status"
    /\ lastOp.active
    /\ lastOp.socket \in connected
    /\ lastOp.socket \notin DOMAIN connectedDevices
    /\ DOMAIN connectedDevices # {}
    /\ sent = <<>>

\* C25: the registry holds entries only for connected connections that have
\* registered: its keys are always connected, a key is added only by the
\* register of that connection, the disconnect of a connection removes its
\* entry, and a restart leaves the registry empty.
C25_RegistryFollowsConnections ==
    /\ [](DOMAIN connectedDevices \subseteq connected)
    /\ [][/\ \A k \in DOMAIN connectedDevices' \ DOMAIN connectedDevices :
                lastOp'.kind = "register" /\ lastOp'.socket = k
          /\ lastOp'.kind = "disconnect" =>
                lastOp'.socket \notin DOMAIN connectedDevices'
          /\ lastOp'.kind = "restart" => connectedDevices' = EmptyMap]_vars

\* The hub restarted after a handshake with a registered partner stored an
\* edge: the edge is loaded again, the registry is empty.
C25_Witness ==
    /\ lastOp.kind = "restart"
    /\ pairs # EmptyMap
    /\ connectedDevices = EmptyMap
    /\ connected = {}

\* C26: an edge comes into existence only through the handshake, a
\* request_pair relayed to the other side followed by that side's
\* pair_accepted.  The pairing-store model has no handler that relays a
\* request_pair, so by the claim no handler step of it makes an edge that the
\* store did not hold before (a restart reloads edges written earlier).
C26_EdgeOnlyAfterRelayedRequest ==
    [][lastOp'.kind # "restart" =>
          \A a \in DeviceIds, b \in DeviceIds :
             HasPeer(EdgesOrEmpty(pairs', a), b) => HasPeer(EdgesOrEmpty(pairs, a), b)]_vars

\* C27: the store never holds an edge from a stable id to itself.
C27_NoSelfEdge ==
    \A a \in DOMAIN pairs : ~HasPeer(pairs[a], a)

\* C28: a request_unpair removes the edge, and every connection registered
\* under the origin or the target id is sent a paired_devices_sync that
\* equals its updated list.
C28_UnpairSyncsEveryEndpoint ==
    [][lastOp'.kind = "request_unpair" =>
          LET o == lastOp'.originId
              t == lastOp'.targetId
          IN  /\ ~HasPeer(EdgesOrEmpty(pairs', o), t)
              /\ ~HasPeer(EdgesOrEmpty(pairs', t), o)
              /\ \A k \in DOMAIN connectedDevices :
                    connectedDevices[k].deviceId \in {o, t} =>
                       \E i \in Emitted(sent', "paired_devices_sync") :
                          /\ k \in sent'[i].rcpt
                          /\ sent'[i].data =
                                EdgesOrEmpty(pairs', connectedDevices[k].deviceId)]_vars

\* C29: an error caused by the provider's configuration (a missing
\* credential) is sent to the requesting connection only: after a failed
\* follow-up it reaches nobody but the asking connection, and after a failed
\* capture it is not delivered to several connections.
C29_ConfigErrorToRequesterOnly ==
    \A i \in Emitted(sent, "error") :
       sent[i].data.cause = "config" =>
          /\ Cardinality(sent[i].rcpt) <= 1
          /\ lastOp.kind = "followup_failed" => sent[i].rcpt \subseteq {lastOp.socket}

\* C30: a hub started over a pairs.json that is missing or does not hold a
\* pairing map never crashes: no register, pair_accepted or request_unpair
\* takes the process down.
C30_BadPairsFileNeverCrashes ==
    pairsFile.kind # "map" => Alive

\* C31: record ids are unique: no two records of the in-memory history and
\* no two lines of a day bucket carry the same id.
C31_RecordIdsUnique ==
    /\ \A i \in 1..Len(history), k \in 1..Len(history) :
          history[i].id = history[k].id => i = k
    /\ \A d \in Days :
          LET rs == RecordsOf(buckets[d])
          IN  \A i \in 1..Len(rs), k \in 1..Len(rs) : rs[i].id = rs[k].id => i = k

\* C32: in every state the in-memory history has at most 50 records and
\* lists the records appended last, the most recently appended first; this
\* includes the state right after a bucket of more than 50 lines was loaded.
C32_HistoryBoundedNewestFirst ==
    /\ Len(history) <= HISTORY_LIMIT
    /\ Len(history) <= Len(appendLog)
    /\ Len(appendLog) <= HISTORY_LIMIT => Len(history) = Len(appendLog)
    /\ \A i \in 1..Len(history) :
          Strip(history[i]) = appendLog[Len(appendLog) - i + 1]

\* The process has restarted over a bucket of more than 50 records, one of
\* them written by a capture of the previous run: memory holds the newest 50.
C32_Witness ==
    /\ lastOp.kind = "restart"
    /\ Len(RecordsOf(buckets[getDailyPath])) > HISTORY_LIMIT + 1
    /\ Len(history) = HISTORY_LIMIT
    /\ history[1].id = StartNow

IsPrefix(s, t) == Len(s) <= Len(t) /\ SubSeq(t, 1, Len(s)) = s

\* The record r is carried on as q: same fields, thread extended at its end.
Continues(r, q) == Strip(q) = Strip(r) /\ IsPrefix(ThreadOf(r), ThreadOf(q))

\* C33: a record's id never changes and its thread only grows at its end,
\* in every day bucket (record by record, in file order) and in memory
\* (position by position; a new capture moves every record down by one, a
\* restart reloads the records that are still in today's bucket).
C33_ThreadOnlyGrows ==
    [][/\ \A d \in Days :
             \/ buckets'[d] = buckets[d]
             \/ \E rs \in {RecordsOf(buckets[d])}, qs \in {RecordsOf(buckets'[d])} :
                   /\ Len(rs) <= Len(qs)
                   /\ \A i \in 1..Len(rs) : Continues(rs[i], qs[i])
       /\ lastOp'.kind = "analyze_ok" =>
             \A i \in 1..Len(history) :
                i + 1 <= Len(history') => Continues(history[i], history'[i + 1])
       /\ lastOp'.kind = "restart" =>
             \A i \in 1..Len(history) :
                \/ \E k \in 1..Len(history') : Continues(history[i], history'[k])
                \/ \A k \in 1..Len(history') : history'[k].id # history[i].id
       /\ lastOp'.kind \notin {"analyze_ok", "restart"} =>
             /\ Len(history') = Len(history)
             /\ \A i \in 1..Len(history) : Continues(history[i], history'[i])]_vars

\* A second follow-up on a record has been answered: its thread holds two
\* entries in memory and on its line in the bucket.
C33_Witness ==
    /\ lastOp.kind = "followup_ok"
    /\ \E i \in 1..Len(history) :
          /\ history[i].id = lastOp.parentId
          /\ Len(ThreadOf(history[i])) = 2
          /\ history[i].thread[1].prompt # history[i].thread[2].prompt
    /\ \E k \in InBucket(buckets[getDailyPath], lastOp.parentId) :
          Len(ThreadOf(JSONParse(buckets[getDailyPath].lines[k]))) = 2

FailedOps == {"analyze_failed", "followup_failed"}

\* C34: a capture or a follow-up puts one provider call in flight; when the
\* call fails, that operation is over (its call is not in flight again), the
\* registry, the pairing store, the history and the buckets are as before,
\* and every connection can have its next event handled.
C34_FailureEndsOnlyItsOperation ==
    /\ [][/\ Len(pendingScans') > Len(pendingScans) =>
                /\ lastOp'.kind = "analyze_start"
                /\ Len(pendingScans') = Len(pendingScans) + 1
          /\ Len(pendingFollowups') > Len(pendingFollowups) =>
                /\ lastOp'.kind = "followup_start"
                /\ Len(pendingFollowups') = Len(pendingFollowups) + 1
          /\ lastOp'.kind = "analyze_failed" =>
                /\ \E i \in 1..Len(pendingScans) :
                      pendingScans' = RemoveAt(pendingScans, i)
                /\ pendingFollowups' = pendingFollowups
          /\ lastOp'.kind = "followup_failed" =>
                /\ \E j \in 1..Len(pendingFollowups) :
                      pendingFollowups' = RemoveAt(pendingFollowups, j)
                /\ pendingScans' = pendingScans
          /\ lastOp'.kind \in FailedOps =>
                /\ connected' = connected
                /\ connectedDevices' = connectedDevices
                /\ pairs' = pairs
                /\ pairsFile' = pairsFile
                /\ history' = history
                /\ buckets' = buckets]_vars
    /\ [](lastOp.kind \in FailedOps =>
             /\ Alive
             /\ \A s \in connected :
                   /\ \A d \in DeviceIds : ENABLED Register(s, "n1", FALSE, d)
                   /\ \A active \in BOOLEAN : ENABLED CameraStatus(s, active)
                   /\ \A t \in Sockets, data \in RelayData :
                         ENABLED Relay("signal_offer", s, t, data)
                   /\ \A p \in Sockets, t \in DeviceIds :
                         ENABLED PairAccepted(s, p, "n1", t, "n1", TRUE)
                   /\ \A p \in Prompts : ENABLED FollowupStart(s, StartNow, p)
             /\ ENABLED AnalyzeStart(TRUE, "ollama"))

\* A follow-up has failed while a device is registered and paired, and the
\* asking connection is still there.
C34_Witness ==
    /\ lastOp.kind = "followup_failed"
    /\ lastOp.socket \in connected
    /\ DOMAIN connectedDevices # {}
    /\ pairs # EmptyMap

\* The clock values a capture of the capture model may be accepted at.
CaptureIds == StartNow..(StartNow + MaxCaptureSteps)

CaptureInFlight(id) == \E i \in 1..Len(pendingScans) : pendingScans[i].scanId = id

\* The handler of capture id has just ended: one HTTP response and one of
\* new_answer / scan_failed, broadcast.
CaptureEnded(id) ==
    /\ lastOp.kind \in {"analyze_ok", "analyze_failed"}
    /\ lastOp.scanId = id
    /\ Cardinality(Emitted(sent, "http")) = 1
    /\ Cardinality(Terminals(sent)) = 1
    /\ \A i \in Terminals(sent) : sent[i].to = Broadcast

\* C35: when every provider call returns, every capture accepted with an
\* image reaches its end, one HTTP response and one of new_answer and
\* scan_failed broadcast, and no capture stays in flight for ever.
C35_CaptureReachesTerminal ==
    /\ \A id \in CaptureIds : CaptureInFlight(id) ~> CaptureEnded(id)
    /\ <>[](pendingScans = <<>>)

\* Two captures were in flight together; one has succeeded, the other has
\* just failed, and none is left.
C35_Witness ==
    /\ lastOp.kind = "analyze_failed"
    /\ Cardinality(Emitted(sent, "http")) = 1
    /\ Emitted(sent, "scan_failed") # {}
    /\ history # <<>>
    /\ pendingScans = <<>>
    /\ connected # {}

\* C36: a relay handler, whatever the event, leaves the registry, the
\* pairing store, the history and the pending calls as they are: nothing of
\* the relayed message stays in the hub.
C36_RelayKeepsNoState ==
    [][lastOp'.kind = "relay" =>
          /\ lastOp'.event \in RelayKinds
          /\ connected' = connected
          /\ connectedDevices' = connectedDevices
          /\ pairs' = pairs
          /\ pairsFile' = pairsFile
          /\ config' = config
          /\ history' = history
          /\ buckets' = buckets
          /\ images' = images
          /\ pendingScans' = pendingScans
          /\ pendingFollowups' = pendingFollowups]_vars

\* A registered connection has asked another registered connection for its
\* stream.
C36_Witness ==
    /\ lastOp.kind = "relay"
    /\ lastOp.event = "request_stream"
    /\ lastOp.socket # lastOp.target
    /\ {lastOp.socket, lastOp.target} \subseteq DOMAIN connectedDevices
    /\ Len(sent) = 1
    /\ sent[1].rcpt = {lastOp.target}

\* C37: among the handlers only pair_accepted and request_unpair change the
\* pairing map or pairs.json (a restart loads the map from the file again),
\* and a pair_accepted whose partner is not in the registry changes neither.
C37_OnlyPairingHandlersWriteEdges ==
    [][/\ (pairs' # pairs \/ pairsFile' # pairsFile) =>
             lastOp'.kind \in {"pair_accepted", "request_unpair", "restart"}
       /\ lastOp'.kind = "restart" => pairsFile' = pairsFile
       /\ (lastOp'.kind = "pair_accepted" /\ ~lastOp'.added) =>
             /\ pairs' = pairs
             /\ pairsFile' = pairsFile
             /\ sent' = <<>>]_vars

\* A pair_accepted naming a connected but unregistered partner has been
\* handled while the store holds an edge and a device is registered.
C37_Witness ==
    /\ lastOp.kind = "pair_accepted"
    /\ ~lastOp.added
    /\ lastOp.partnerId \in connected
    /\ DOMAIN connectedDevices # {}
    /\ \E a \in DOMAIN pairs : pairs[a] # <<>>

\* C38: the continuation of a follow-up runs as one step: it puts its entry
\* at the end of the thread of the record found in memory and of every line
\* of today's bucket carrying the id, whatever other follow-ups on the same
\* record are in flight, and leaves those in flight; so when two of them
\* have returned the thread ends with both entries, in the order of their
\* return.
C38_ConcurrentFollowupsBothAppended ==
    [][lastOp'.kind = "followup_ok" =>
          LET p == lastOp'.parentId
              e == lastOp'.entry
              i == FindIndex(history, p)
          IN  /\ \E j \in 1..Len(pendingFollowups) :
                    /\ pendingFollowups[j].parentId = p
                    /\ pendingFollowups[j].prompt = e.prompt
                    /\ pendingFollowups' = RemoveAt(pendingFollowups, j)
              /\ Len(history') = Len(history)
              /\ \A k \in 1..Len(history) :
                    IF k = i
                    THEN /\ Strip(history'[k]) = Strip(history[k])
                         /\ ThreadOf(history'[k]) = Append(ThreadOf(history[k]), e)
                    ELSE history'[k] = history[k]
              /\ \E rs \in {RecordsOf(buckets[lastOp'.day])},
                    qs \in {RecordsOf(buckets'[lastOp'.day])} :
                    /\ Len(qs) = Len(rs)
                    /\ \A k \in 1..Len(rs) :
                          IF rs[k].id = p
                          THEN /\ Strip(qs[k]) = Strip(rs[k])
                               /\ ThreadOf(qs[k]) = Append(ThreadOf(rs[k]), e)
                          ELSE qs[k] = rs[k]]_vars

\* Two follow-ups with different prompts on one record have both returned:
\* its thread, in memory and on its line of the bucket, holds the two
\* entries once each, the one that returned last at the end.
C38_Witness ==
    /\ lastOp.kind = "followup_ok"
    /\ pendingFollowups = <<>>
    /\ \E i \in 1..Len(history) :
          /\ history[i].id = lastOp.parentId
          /\ Len(ThreadOf(history[i])) = 2
          /\ history[i].thread[2] = lastOp.entry
          /\ history[i].thread[1].prompt # lastOp.entry.prompt
          /\ \E k \in InBucket(buckets[getDailyPath], lastOp.parentId) :
                JSONParse(buckets[getDailyPath].lines[k]) = history[i]

\* C39: between handlers, a record that is both in memory and in the
\* current day's bucket has the same thread in both.
C39_MemoryThreadEqualsBucketThread ==
    \A i \in 1..Len(history) :
       \A k \in InBucket(buckets[getDailyPath], history[i].id) :
          ThreadOf(history[i]) = ThreadOf(JSONParse(buckets[getDailyPath].lines[k]))

\* C40: after a device_register the sender's entry has hasCamera = false,
\* whatever its entry held before, and the device list that is broadcast
\* says so; an entry's hasCamera becomes true only by a camera_status
\* (active) of its own connection.
C40_RegisterResetsCamera ==
    [][/\ lastOp'.kind = "register" =>
             /\ ~connectedDevices'[lastOp'.socket].hasCamera
             /\ \E i \in Emitted(sent', "device_list") :
                   \E n \in 1..Len(sent'[i].data) :
                      /\ sent'[i].data[n].id = lastOp'.socket
                      /\ ~sent'[i].data[n].hasCamera
       /\ \A k \in DOMAIN connectedDevices' :
             (/\ connectedDevices'[k].hasCamera
              /\ ~(k \in DOMAIN connectedDevices /\ connectedDevices[k].hasCamera)) =>
                /\ lastOp'.kind = "camera_status"
                /\ lastOp'.socket = k
                /\ lastOp'.active]_vars

\* The only connection has registered as the fourth event of the hub (after
\* its connect, a register and one more event, such as a camera_status):
\* its entry has hasCamera = false.
C40_Witness ==
    /\ lastOp.kind = "register"
    /\ socketIds = 1
    /\ steps = 4
    /\ lastOp.socket \in DOMAIN connectedDevices
    /\ ~connectedDevices[lastOp.socket].hasCamera
=============================================================================
